---- MODULE Spec2Model ----
(***************************************************************************)
(* Serial device emulator: the DeviceManager (factory registry, device     *)
(* slots, UART allocation table, serial port wrappers) and the lifecycle   *)
(* of the three emulated devices (Yaesu CAT radio, G-5500 rotator, NMEA    *)
(* GPS), modelled from the C++ sources.                                    *)
(*                                                                         *)
(* C strings are sequences of one-character strings, so that strcmp,       *)
(* strcasecmp, strtoul and toupper are computed character by character.    *)
(* Angles are integers in millidegrees (speed in deg/s times elapsed ms).  *)
(***************************************************************************)
EXTENDS Integers, Sequences, FiniteSets, TLC

VARIABLES
    platform,         \* the build target (platform_config.h #if chain)
    factories,        \* DeviceManager::_factories[0.._factoryCount-1]
    devices,          \* DeviceManager::_devices[MAX_DEVICES]
    deviceFactories,  \* DeviceManager::_deviceFactories[MAX_DEVICES]
    uartAllocation,   \* DeviceManager::_uartAllocation[PLATFORM_MAX_UARTS]
    serialPorts,      \* DeviceManager::_serialPorts[PLATFORM_MAX_UARTS]
    now,              \* millis()
    lastOp,           \* the last call made: its argument (arg), the id it
                      \* returned or was about (id), whether it succeeded
                      \* (ok), whether the device was running before (was)
    stored,           \* the StoredConfig held in EEPROM
    cat,              \* a CATParser with the YaesuState and the serial port
                      \* it refers to: state, the buffered bytes (buffer) and
                      \* the frames the last update() wrote to the port (tx)
    rot,              \* a G5500Device (dev) with its GS232Parser's buffered
                      \* bytes (buffer) and the responses the last update()
                      \* wrote (tx); history: the state the last received
                      \* bytes or console call left before integration
                      \* (base), millis() then (baseAt), whether update()
                      \* ran since millis() last changed (fresh), and the
                      \* numbers of console calls and bursts (ops) and of
                      \* time steps (ticks) so far
    gps,              \* a NMEAGPSDevice (dev), the sentences the last
                      \* operation wrote to its port (tx), that operation (op)
                      \* and the numbers of console calls (ops) and time
                      \* steps (ticks) so far
    con               \* the Console inside loop(): where loop() is (pc), the
                      \* bytes waiting on the console stream (rx), _cmdLen
                      \* (cmdLen) and the number of bytes that have arrived
                      \* (arrived)

vars == <<platform, factories, devices, deviceFactories, uartAllocation,
          serialPorts, now, lastOp, stored, cat, rot, gps, con>>

mgrVars == <<factories, devices, deviceFactories, uartAllocation>>

-----------------------------------------------------------------------------
(* Program constants *)

INVALID_ID == 255
MAX_DEVICES == 8
MAX_DEVICE_FACTORIES == 8
MIN_UPDATE_INTERVAL == 10
MIN_SPEED == 1
MAX_SPEED == 10
DEFAULT_AZ_SPEED_INT == 2
DEFAULT_EL_SPEED_INT == 1
FREQ_MIN == 30000
FREQ_MAX == 470000000
DEFAULT_FREQ_VFO_A == 14074000
DEFAULT_FREQ_VFO_B == 7074000
AZ_MIN == 0
AZ_MAX == 450000
EL_MIN == 0
EL_MAX == 180000

\* The largest unsigned long value the model tells apart: it stands for every
\* value from 2^31 - 1 up to ULONG_MAX (all of them exceed every range limit
\* the program compares a parsed number with)
ULONG_BIG == 2147483647

(* Bounds of the model *)

\* millis() advances in steps of TickMs, MaxTicks times at most
TickMs == 1000
MaxTicks == 2

-----------------------------------------------------------------------------
(* C strings and the libc functions the program uses on them *)

UpperChars == <<"A","B","C","D","E","F","G","H","I","J","K","L","M",
                "N","O","P","Q","R","S","T","U","V","W","X","Y","Z">>
LowerChars == <<"a","b","c","d","e","f","g","h","i","j","k","l","m",
                "n","o","p","q","r","s","t","u","v","w","x","y","z">>
DigitChars == <<"0","1","2","3","4","5","6","7","8","9">>

\* tolower / toupper as tables over the letters; other characters map to
\* themselves
LowerOf == [c \in {UpperChars[i] : i \in 1..26} |->
               LowerChars[CHOOSE i \in 1..26 : UpperChars[i] = c]]
UpperOf == [c \in {LowerChars[i] : i \in 1..26} |->
               UpperChars[CHOOSE i \in 1..26 : LowerChars[i] = c]]

tolower(c) == IF c \in DOMAIN LowerOf THEN LowerOf[c] ELSE c

toupper(c) == IF c \in DOMAIN UpperOf THEN UpperOf[c] ELSE c

\* c - '0' for the decimal digits
DigitOf == [c \in {DigitChars[i] : i \in 1..10} |->
               (CHOOSE i \in 1..10 : DigitChars[i] = c) - 1]

isdigit(c) == c \in DOMAIN DigitOf

digitValue(c) == DigitOf[c]

\* 0 when the strings are equal, nonzero otherwise (the sign is never used)
strcmp(a, b) == IF a = b THEN 0 ELSE 1

strcasecmp(a, b) ==
    IF Len(a) = Len(b) /\ \A i \in 1..Len(a) : tolower(a[i]) = tolower(b[i])
    THEN 0 ELSE 1

strlen(s) == Len(s)

\* The value of the digits s[i..j-1], saturating (at ULONG_BIG) as strtoul does
RECURSIVE digitsValue(_, _, _, _)
digitsValue(s, i, j, acc) ==
    IF i >= j THEN acc
    ELSE IF acc > (ULONG_BIG - digitValue(s[i])) \div 10
    THEN digitsValue(s, i + 1, j, ULONG_BIG)
    ELSE digitsValue(s, i + 1, j, acc * 10 + digitValue(s[i]))

\* First index >= i of s that is not a space (Len(s)+1 when there is none)
RECURSIVE skipSpaces(_, _)
skipSpaces(s, i) ==
    IF i <= Len(s) /\ s[i] = " " THEN skipSpaces(s, i + 1) ELSE i

\* First index >= i of s that is not a digit
RECURSIVE skipDigits(_, _)
skipDigits(s, i) ==
    IF i <= Len(s) /\ isdigit(s[i]) THEN skipDigits(s, i + 1) ELSE i

\* strtoul(str, &endptr, 10) with a 32-bit unsigned long: val is the result,
\* end the number of characters consumed (0: no digits, endptr == str).
\* A negated magnitude m in 1..2^31 wraps to 2^32 - m, which is ULONG_BIG here.
strtoul(s) ==
    LET i0   == skipSpaces(s, 1)
        neg  == i0 <= Len(s) /\ s[i0] = "-"
        i1   == IF i0 <= Len(s) /\ (s[i0] = "-" \/ s[i0] = "+") THEN i0 + 1 ELSE i0
        i2   == skipDigits(s, i1)
        mag  == digitsValue(s, i1, i2, 0)
    IN IF i2 = i1 THEN [val |-> 0, end |-> 0]
       ELSE [val |-> IF neg /\ mag > 0 THEN ULONG_BIG ELSE mag,
             end |-> i2 - 1]

\* The string literals of the program
S_yaesu      == <<"y","a","e","s","u">>
S_YAESU      == <<"Y","A","E","S","U">>
S_g5500      == <<"g","-","5","5","0","0">>
S_nmea_gps   == <<"n","m","e","a","-","g","p","s">>
S_ft991a     == <<"f","t","-","9","9","1","a">>
S_radio      == <<"r","a","d","i","o">>
S_rotator    == <<"r","o","t","a","t","o","r">>
S_gps        == <<"g","p","s">>
S_Radio      == <<"R","a","d","i","o">>
S_ROTATOR    == <<"R","O","T","A","T","O","R">>
S_GPS        == <<"G","P","S">>
S_bogus      == <<"b","o","g","u","s">>
S_baud_rate  == <<"b","a","u","d","_","r","a","t","e">>
S_BAUD_RATE  == <<"B","A","U","D","_","R","A","T","E">>
S_echo       == <<"e","c","h","o">>
S_az_speed   == <<"a","z","_","s","p","e","e","d">>
S_el_speed   == <<"e","l","_","s","p","e","e","d">>
S_update_rate == <<"u","p","d","a","t","e","_","r","a","t","e">>
S_1200       == <<"1","2","0","0">>
S_4800       == <<"4","8","0","0">>
S_9600       == <<"9","6","0","0">>
S_19200      == <<"1","9","2","0","0">>
S_38400      == <<"3","8","4","0","0">>
S_1          == <<"1">>
S_5          == <<"5">>
S_10         == <<"1","0">>
S_0          == <<"0">>
S_true       == <<"t","r","u","e">>
S_false      == <<"f","a","l","s","e">>
S_empty      == <<>>
S_11         == <<"1","1">>
S_sp5        == <<" ","5">>
S_5x         == <<"5","x">>
S_neg1       == <<"-","1">>
S_huge       == <<"9","9","9","9","9","9","9","9","9","9","9">>
S_TRUE       == <<"T","R","U","E">>
S_abc        == <<"a","b","c">>

-----------------------------------------------------------------------------
(* Platform configuration (platform_config.h) *)

\* Two of the build targets: the Mega declares UARTs 1..3 (Serial1..3), the
\* Nucleo G070RB declares UARTs 1..4 with Serial2 reserved for the console
Platforms == {"Arduino-Mega", "Nucleo-G070RB"}

PLATFORM_MAX_UARTS == IF platform = "Nucleo-G070RB" THEN 4 ELSE 3

HAS_SERIAL1 == platform \in {"Arduino-Mega", "Nucleo-G070RB"}

HAS_SERIAL2 == platform = "Arduino-Mega"

\* HAS_SERIAL3 / HAS_SERIAL4 as platform_config.h defines them
HAS_SERIAL3 == platform \in {"Arduino-Mega", "Nucleo-G070RB"}

HAS_SERIAL4 == platform = "Nucleo-G070RB"

\* The UART indices the platform declares as device UARTs (UART_n_PINS)
DeclaredUarts ==
    {u \in 1..PLATFORM_MAX_UARTS :
        \/ u = 1 /\ HAS_SERIAL1
        \/ u = 2 /\ HAS_SERIAL2
        \/ u = 3 /\ HAS_SERIAL3
        \/ u = 4 /\ HAS_SERIAL4}

DEFAULT_RADIO_TYPE == S_ft991a
DEFAULT_ROTATOR_TYPE == S_g5500
DEFAULT_GPS_TYPE == S_nmea_gps

-----------------------------------------------------------------------------
(* Device factories *)

NULL == "nullptr"

\* The factories registerFactory is called with, in the order of the calls:
\* the three of main.cpp, then a factory whose type name differs from
\* "yaesu" in letter case only, then five more with names of their own
\* (enough to fill the registry and overflow it by one).
FactoryList == <<"yaesuFactory", "g5500Factory", "nmeaGpsFactory",
                 "upperYaesuFactory", "extraFactory1", "extraFactory2",
                 "extraFactory3", "extraFactory4", "extraFactory5">>

FactoryPool == {FactoryList[i] : i \in 1..Len(FactoryList)}

FactoryIndex(f) == CHOOSE i \in 1..Len(FactoryList) : FactoryList[i] = f

getTypeName(f) ==
    CASE f = "yaesuFactory"      -> S_yaesu
      [] f = "g5500Factory"      -> S_g5500
      [] f = "nmeaGpsFactory"    -> S_nmea_gps
      [] f = "upperYaesuFactory" -> S_YAESU
      [] OTHER                   -> <<"x", DigitChars[FactoryIndex(f) - 3]>>

\* The class of device IDeviceFactory::create() builds
FactoryClass(f) ==
    CASE f = "g5500Factory"   -> "G5500Device"
      [] f = "nmeaGpsFactory" -> "NMEAGPSDevice"
      [] OTHER                -> "YaesuDevice"

\* The startup registry: main.cpp registers these three, in this order
StartupFactories == <<"yaesuFactory", "g5500Factory", "nmeaGpsFactory">>

\* The category a device class belongs to
CategoryOf(kind) ==
    CASE kind = "YaesuDevice"   -> S_radio
      [] kind = "G5500Device"   -> S_rotator
      [] kind = "NMEAGPSDevice" -> S_gps

-----------------------------------------------------------------------------
(* Device options (DeviceOption.h and each device's initOptions) *)

Yaesu_baudRates == <<4800, 9600, 19200, 38400>>
Yaesu_NUM_BAUD_RATES == 4
Yaesu_DEFAULT_BAUD_INDEX == 3

G5500_BAUD_RATE_VALUES == <<1200, 4800, 9600>>
G5500_NUM_BAUD_RATES == 3
G5500_DEFAULT_BAUD_INDEX == 2

NMEA_BAUD_RATE_VALUES == <<4800, 9600, 19200, 38400>>
NMEA_NUM_BAUD_RATES == 4
NMEA_DEFAULT_BAUD_INDEX == 1
NMEA_UPDATE_RATE_VALUES == <<1, 5, 10>>
NMEA_NUM_UPDATE_RATES == 3
NMEA_DEFAULT_RATE_INDEX == 0

\* The option descriptors of a device class: name, type and the fixed part
\* of the value union (enum candidates, numeric range)
OptionDescs(kind) ==
    CASE kind = "YaesuDevice" ->
           << [name |-> S_baud_rate, type |-> "ENUM",
               values |-> <<S_4800, S_9600, S_19200, S_38400>>],
              [name |-> S_echo, type |-> "BOOL"] >>
      [] kind = "G5500Device" ->
           << [name |-> S_baud_rate, type |-> "ENUM",
               values |-> <<S_1200, S_4800, S_9600>>],
              [name |-> S_az_speed, type |-> "UINT32", min |-> MIN_SPEED, max |-> MAX_SPEED],
              [name |-> S_el_speed, type |-> "UINT32", min |-> MIN_SPEED, max |-> MAX_SPEED] >>
      [] kind = "NMEAGPSDevice" ->
           << [name |-> S_baud_rate, type |-> "ENUM",
               values |-> <<S_4800, S_9600, S_19200, S_38400>>],
              [name |-> S_update_rate, type |-> "ENUM",
               values |-> <<S_1, S_5, S_10>>] >>

\* initOptions(): the current value of each option after construction
initOptions(kind) ==
    CASE kind = "YaesuDevice"   -> <<Yaesu_DEFAULT_BAUD_INDEX, FALSE>>
      [] kind = "G5500Device"   -> <<G5500_DEFAULT_BAUD_INDEX, DEFAULT_AZ_SPEED_INT, DEFAULT_EL_SPEED_INT>>
      [] kind = "NMEAGPSDevice" -> <<NMEA_DEFAULT_BAUD_INDEX, NMEA_DEFAULT_RATE_INDEX>>

\* First index i (1-based) with strcasecmp(str, values[i]) == 0, or 0
RECURSIVE enumIndex(_, _, _)
enumIndex(values, str, i) ==
    IF i > Len(values) THEN 0
    ELSE IF strcasecmp(str, values[i]) = 0 THEN i
    ELSE enumIndex(values, str, i + 1)

\* parseOptionValue(opt, str): ok is the return value, cur the option's
\* current value afterwards (enum indices are 0-based as in the code)
parseOptionValue(desc, cur, str) ==
    CASE desc.type = "UINT32" ->
           LET r == strtoul(str)
           IN IF r.end # Len(str) THEN [ok |-> FALSE, cur |-> cur]
              ELSE IF r.val < desc.min \/ r.val > desc.max THEN [ok |-> FALSE, cur |-> cur]
              ELSE [ok |-> TRUE, cur |-> r.val]
      [] desc.type = "BOOL" ->
           IF strcasecmp(str, S_true) = 0 \/ strcmp(str, S_1) = 0
           THEN [ok |-> TRUE, cur |-> TRUE]
           ELSE IF strcasecmp(str, S_false) = 0 \/ strcmp(str, S_0) = 0
           THEN [ok |-> TRUE, cur |-> FALSE]
           ELSE [ok |-> FALSE, cur |-> cur]
      [] desc.type = "ENUM" ->
           LET i == enumIndex(desc.values, str, 1)
           IN IF i > 0 THEN [ok |-> TRUE, cur |-> i - 1]
              ELSE [ok |-> FALSE, cur |-> cur]
      [] OTHER -> [ok |-> FALSE, cur |-> cur]

-----------------------------------------------------------------------------
(* Device state models *)

\* YaesuState::reset()
YaesuState_reset ==
    [freqVfoA |-> DEFAULT_FREQ_VFO_A, freqVfoB |-> DEFAULT_FREQ_VFO_B,
     currentVfo |-> "VFO_A", modeVfoA |-> 2, modeVfoB |-> 2,
     ptt |-> FALSE, powerOn |-> TRUE, ritOn |-> FALSE, xitOn |-> FALSE,
     ritOffset |-> 0, xitOffset |-> 0,
     smeter |-> 0, powerMeter |-> 0, swrMeter |-> 0, alcMeter |-> 0, compMeter |-> 0,
     squelch |-> 50, afGain |-> 128, rfGain |-> 255]

\* G5500State::reset(); angles in millidegrees
G5500State_reset ==
    [azimuth |-> 0, elevation |-> 0, targetAzimuth |-> 0, targetElevation |-> 0,
     azRotation |-> "STOPPED", elRotation |-> "STOPPED",
     azGotoMode |-> FALSE, elGotoMode |-> FALSE, lastUpdateMs |-> 0]

\* NMEAGPSState::initSatellites(): PRN, elevation, azimuth, SNR of the 12 entries
satData == << <<2, 45, 120, 42>>, <<5, 67, 230, 45>>, <<9, 23, 45, 38>>,
              <<12, 34, 315, 40>>, <<15, 56, 180, 44>>, <<18, 12, 90, 35>>,
              <<21, 78, 270, 47>>, <<25, 41, 150, 41>> >>

initSatellites ==
    [i \in 1..12 |-> IF i <= 8 THEN satData[i] ELSE <<0, 0, 0, 0>>]

\* NMEAGPSState::reset(); latitude and longitude in microdegrees, the other
\* fractional quantities in tenths; the altitude, the one float the console
\* sets and which reaches 3.4e38, as its sign, the decimal digits of its whole
\* part and its tenth
NMEAGPSState_reset ==
    [latitude |-> 37774900, longitude |-> -122419400,
     altitude |-> [neg |-> FALSE, whole |-> <<"1", "0">>, tenth |-> 0],
     geoidSep |-> -340, speedKnots |-> 0, courseTrue |-> 0, courseMag |-> 0,
     fixQuality |-> 1, fixMode |-> 3, numSatellites |-> 8,
     pdop |-> 15, hdop |-> 10, vdop |-> 12,
     sats |-> initSatellites, numSatsInView |-> 8,
     hour |-> 12, minute |-> 0, second |-> 0, day |-> 1, month |-> 1, year |-> 2025,
     magVariation |-> 130, lastOutputMs |-> 0]

\* The state a device's constructor (and reset()) produces
StateReset(kind) ==
    CASE kind = "YaesuDevice"   -> YaesuState_reset
      [] kind = "G5500Device"   -> G5500State_reset
      [] kind = "NMEAGPSDevice" -> NMEAGPSState_reset

\* The simulated quantities of a state, without the integration timestamp
StateModel(kind, st) ==
    CASE kind = "YaesuDevice"   -> st
      [] kind = "G5500Device"   -> [st EXCEPT !.lastUpdateMs = 0]
      [] kind = "NMEAGPSDevice" -> [st EXCEPT !.lastOutputMs = 0]

-----------------------------------------------------------------------------
(* Serial port wrapper (HardwareSerialPort) over the UART hardware *)

\* No wrapper constructed yet for this UART
NoPort == [created |-> FALSE, isOpen |-> FALSE, baud |-> 0]

\* HardwareSerialPort::HardwareSerialPort
NewPort == [created |-> TRUE, isOpen |-> FALSE, baud |-> 0]

\* HardwareSerialPort::begin(baud): the UART runs at baud
Port_begin(port, baud) == [port EXCEPT !.isOpen = TRUE, !.baud = baud]

\* HardwareSerialPort::end(): the UART is closed and has no rate
Port_end(port) == [port EXCEPT !.isOpen = FALSE, !.baud = 0]

-----------------------------------------------------------------------------
(* Devices: constructor, begin, end, applyBaudRate *)

NoDevice == [kind |-> "none"]

\* The constructors: state reset, options initialised, stopped, no id yet
NewDevice(kind, uartIndex) ==
    [kind |-> kind, uartIndex |-> uartIndex, deviceId |-> INVALID_ID,
     running |-> FALSE, options |-> initOptions(kind), state |-> StateReset(kind),
     bufLen |-> 0]

\* The baud rate the baud_rate option of device d selects
OptionBaud(d) ==
    CASE d.kind = "YaesuDevice"   -> Yaesu_baudRates[d.options[1] + 1]
      [] d.kind = "G5500Device"   -> G5500_BAUD_RATE_VALUES[d.options[1] + 1]
      [] d.kind = "NMEAGPSDevice" -> NMEA_BAUD_RATE_VALUES[d.options[1] + 1]

\* YaesuDevice::applyBaudRate
Yaesu_applyBaudRate(d, port) ==
    LET baud == Yaesu_baudRates[d.options[1] + 1]
        p1   == IF port.isOpen THEN Port_end(port) ELSE port
    IN Port_begin(p1, baud)

\* G5500Device::applyBaudRate
G5500_applyBaudRate(d, port) ==
    LET baudIndex == IF d.options[1] >= G5500_NUM_BAUD_RATES
                     THEN G5500_DEFAULT_BAUD_INDEX ELSE d.options[1]
    IN Port_begin(port, G5500_BAUD_RATE_VALUES[baudIndex + 1])

\* NMEAGPSDevice::applyBaudRate
NMEA_applyBaudRate(d, port) ==
    LET baudIndex == IF d.options[1] >= NMEA_NUM_BAUD_RATES
                     THEN NMEA_DEFAULT_BAUD_INDEX ELSE d.options[1]
    IN Port_begin(port, NMEA_BAUD_RATE_VALUES[baudIndex + 1])

\* begin that opens the port and leaves the device stopped
Yaesu_begin_noRun(d, port) ==
    IF d.running THEN [dev |-> d, port |-> port, ret |-> TRUE]
    ELSE IF ~port.created THEN [dev |-> d, port |-> port, ret |-> FALSE]
    ELSE [dev  |-> [d EXCEPT !.bufLen = 0],
          port |-> Yaesu_applyBaudRate(d, port), ret |-> TRUE]

\* YaesuDevice::begin
Yaesu_begin(d, port) ==
    IF d.running THEN [dev |-> d, port |-> port, ret |-> TRUE]
    ELSE IF ~port.created THEN [dev |-> d, port |-> port, ret |-> FALSE]
    ELSE [dev  |-> [d EXCEPT !.bufLen = 0, !.running = TRUE],
          port |-> Yaesu_applyBaudRate(d, port), ret |-> TRUE]

\* G5500Device::begin
G5500_begin(d, port) ==
    IF ~port.created THEN [dev |-> d, port |-> port, ret |-> FALSE]
    ELSE [dev  |-> [d EXCEPT !.bufLen = 0,
                             !.state = [G5500State_reset EXCEPT !.lastUpdateMs = now],
                             !.running = TRUE],
          port |-> G5500_applyBaudRate(d, port), ret |-> TRUE]

\* NMEAGPSDevice::begin
NMEA_begin(d, port) ==
    IF ~port.created THEN [dev |-> d, port |-> port, ret |-> FALSE]
    ELSE [dev  |-> [d EXCEPT !.state = [NMEAGPSState_reset EXCEPT !.lastOutputMs = now],
                             !.running = TRUE],
          port |-> NMEA_applyBaudRate(d, port), ret |-> TRUE]

\* G5500State::stopAzimuth / stopElevation / stopAll
stopAzimuth(st) == [st EXCEPT !.azRotation = "STOPPED", !.azGotoMode = FALSE]
stopElevation(st) == [st EXCEPT !.elRotation = "STOPPED", !.elGotoMode = FALSE]
stopAll(st) == stopElevation(stopAzimuth(st))

\* YaesuDevice::end
Yaesu_end(d, port) ==
    IF ~d.running THEN [dev |-> d, port |-> port]
    ELSE [dev |-> [d EXCEPT !.running = FALSE], port |-> Port_end(port)]

\* G5500Device::end
G5500_end(d, port) ==
    [dev |-> [d EXCEPT !.running = FALSE, !.state = stopAll(d.state)],
     port |-> Port_end(port)]

\* NMEAGPSDevice::end
NMEA_end(d, port) ==
    [dev |-> [d EXCEPT !.running = FALSE], port |-> Port_end(port)]

\* IEmulatedDevice::begin / end, dispatched on the device's class
Device_begin(d, port) ==
    CASE d.kind = "YaesuDevice"   -> Yaesu_begin(d, port)
      [] d.kind = "G5500Device"   -> G5500_begin(d, port)
      [] d.kind = "NMEAGPSDevice" -> NMEA_begin(d, port)

Device_end(d, port) ==
    CASE d.kind = "YaesuDevice"   -> Yaesu_end(d, port)
      [] d.kind = "G5500Device"   -> G5500_end(d, port)
      [] d.kind = "NMEAGPSDevice" -> NMEA_end(d, port)

-----------------------------------------------------------------------------
(* Options: findOption and setOption of each device class *)

\* YaesuDevice::findOption: index (1-based) of the first option whose name
\* equals name ignoring case, 0 for nullptr
RECURSIVE Yaesu_findOption(_, _)
Yaesu_findOption(name, i) ==
    IF i > Len(OptionDescs("YaesuDevice")) THEN 0
    ELSE IF strcasecmp(OptionDescs("YaesuDevice")[i].name, name) = 0 THEN i
    ELSE Yaesu_findOption(name, i + 1)

\* G5500Device::findOption / NMEAGPSDevice::findOption: the names are
\* compared with strcmp
RECURSIVE Strict_findOption(_, _, _)
Strict_findOption(kind, name, i) ==
    IF i > Len(OptionDescs(kind)) THEN 0
    ELSE IF strcmp(OptionDescs(kind)[i].name, name) = 0 THEN i
    ELSE Strict_findOption(kind, name, i + 1)

\* setOption that applies a new baud rate whether the device runs or not
Yaesu_setOption_applyStopped(d, port, name, value) ==
    LET i == Yaesu_findOption(name, 1)
    IN IF i = 0 THEN [dev |-> d, port |-> port, ret |-> FALSE]
       ELSE LET r  == parseOptionValue(OptionDescs(d.kind)[i], d.options[i], value)
                d1 == [d EXCEPT !.options[i] = r.cur]
            IN IF r.ok /\ strcmp(name, S_baud_rate) = 0
               THEN [dev |-> d1, port |-> Yaesu_applyBaudRate(d1, port), ret |-> r.ok]
               ELSE [dev |-> d1, port |-> port, ret |-> r.ok]

\* YaesuDevice::setOption
Yaesu_setOption(d, port, name, value) ==
    LET i == Yaesu_findOption(name, 1)
    IN IF i = 0 THEN [dev |-> d, port |-> port, ret |-> FALSE]
       ELSE LET r  == parseOptionValue(OptionDescs(d.kind)[i], d.options[i], value)
                d1 == [d EXCEPT !.options[i] = r.cur]
            IN IF r.ok /\ strcmp(name, S_baud_rate) = 0 /\ d.running
               THEN [dev |-> d1, port |-> Yaesu_applyBaudRate(d1, port), ret |-> r.ok]
               ELSE [dev |-> d1, port |-> port, ret |-> r.ok]

\* G5500Device::setOption
G5500_setOption(d, port, name, value) ==
    LET i == Strict_findOption(d.kind, name, 1)
    IN IF i = 0 THEN [dev |-> d, port |-> port, ret |-> FALSE]
       ELSE LET r  == parseOptionValue(OptionDescs(d.kind)[i], d.options[i], value)
                d1 == [d EXCEPT !.options[i] = r.cur]
            IN IF ~r.ok THEN [dev |-> d, port |-> port, ret |-> FALSE]
               ELSE IF strcmp(name, S_baud_rate) = 0 /\ d.running
               THEN [dev |-> d1, port |-> G5500_applyBaudRate(d1, port), ret |-> TRUE]
               ELSE [dev |-> d1, port |-> port, ret |-> TRUE]

\* NMEAGPSDevice::setOption
NMEA_setOption(d, port, name, value) ==
    LET i == Strict_findOption(d.kind, name, 1)
    IN IF i = 0 THEN [dev |-> d, port |-> port, ret |-> FALSE]
       ELSE LET r  == parseOptionValue(OptionDescs(d.kind)[i], d.options[i], value)
                d1 == [d EXCEPT !.options[i] = r.cur]
            IN IF ~r.ok THEN [dev |-> d, port |-> port, ret |-> FALSE]
               ELSE IF strcmp(name, S_baud_rate) = 0 /\ d.running
               THEN [dev |-> d1, port |-> NMEA_applyBaudRate(d1, port), ret |-> TRUE]
               ELSE [dev |-> d1, port |-> port, ret |-> TRUE]

Device_setOption(d, port, name, value) ==
    CASE d.kind = "YaesuDevice"   -> Yaesu_setOption(d, port, name, value)
      [] d.kind = "G5500Device"   -> G5500_setOption(d, port, name, value)
      [] d.kind = "NMEAGPSDevice" -> NMEA_setOption(d, port, name, value)

-----------------------------------------------------------------------------
(* Yaesu CAT commands (CATParser) *)

CAT_BUFFER_SIZE == 64
CAT_TERMINATOR == ";"

\* The bytes below 32 that reach the port in the model: CR and LF
ControlChars == {"\r", "\n"}

\* The decimal digits of n >= 0
RECURSIVE decStr(_)
decStr(n) ==
    IF n < 10 THEN <<DigitChars[n + 1]>>
    ELSE decStr(n \div 10) \o <<DigitChars[(n % 10) + 1]>>

RECURSIVE zeroPad(_, _)
zeroPad(s, width) == IF Len(s) >= width THEN s ELSE zeroPad(<<"0">> \o s, width)

\* printf's %0<width>lu and %0<width>d of n >= 0
fmtZero(width, n) == zeroPad(decStr(n), width)

\* printf's %d
fmtInt(n) == IF n < 0 THEN <<"-">> \o decStr(0 - n) ELSE decStr(n)

\* printf's %+05d: the sign, then the digits zero-padded to 5 characters in all
fmtPlus05(n) ==
    IF n < 0 THEN <<"-">> \o zeroPad(decStr(0 - n), 4)
    ELSE <<"+">> \o zeroPad(decStr(n), 4)

\* snprintf(buf, size, ...): at most size - 1 characters are stored
snprintf(size, s) == IF Len(s) > size - 1 THEN SubSeq(s, 1, size - 1) ELSE s

\* atoi with a 32-bit int: optional spaces, optional sign, digits; 0 when
\* there are no digits.  The strings of the model stay below 2^31.
atoi(s) ==
    LET i0  == skipSpaces(s, 1)
        neg == i0 <= Len(s) /\ s[i0] = "-"
        i1  == IF i0 <= Len(s) /\ (s[i0] = "-" \/ s[i0] = "+") THEN i0 + 1 ELSE i0
        i2  == skipDigits(s, i1)
        mag == digitsValue(s, i1, i2, 0)
    IN IF neg THEN 0 - mag ELSE mag

\* The conversion of an int to int16_t (modulo 2^16)
toInt16(v) == ((v + 32768) % 65536) - 32768

\* constrain(x, lo, hi)
constrain(x, lo, hi) == IF x < lo THEN lo ELSE IF x > hi THEN hi ELSE x

\* A handler's outcome: the state afterwards and the frames written
noResponse(st) == [st |-> st, tx |-> <<>>]

\* CATParser::sendResponse: the response followed by the terminator
sendResponse(st, response) == [st |-> st, tx |-> <<response \o <<CAT_TERMINATOR>>>>]

\* YaesuState::getCurrentFreq / getCurrentMode / setCurrentMode
getCurrentFreq(st) == IF st.currentVfo = "VFO_A" THEN st.freqVfoA ELSE st.freqVfoB

getCurrentMode(st) == IF st.currentVfo = "VFO_A" THEN st.modeVfoA ELSE st.modeVfoB

\* setCurrentMode that always writes VFO-A's mode
setCurrentMode_alwaysA(st, mode) == [st EXCEPT !.modeVfoA = mode]

\* YaesuState::setCurrentMode
setCurrentMode(st, mode) ==
    IF st.currentVfo = "VFO_A" THEN [st EXCEPT !.modeVfoA = mode]
    ELSE [st EXCEPT !.modeVfoB = mode]

\* parseFrequency without the range check
parseFrequency_noRange(str) ==
    LET r == strtoul(str)
    IN IF r.end < Len(str) /\ str[r.end + 1] # ";" THEN [ok |-> FALSE, freq |-> 0]
       ELSE [ok |-> TRUE, freq |-> r.val]

\* parseFrequency that takes exactly 9 digits
parseFrequency_nineDigits(str) ==
    LET r == strtoul(str)
    IN IF strlen(str) # 9 \/ r.end # 9 \/ ~isdigit(str[1]) THEN [ok |-> FALSE, freq |-> 0]
       ELSE IF r.val < FREQ_MIN \/ r.val > FREQ_MAX THEN [ok |-> FALSE, freq |-> 0]
       ELSE [ok |-> TRUE, freq |-> r.val]

\* CATParser::parseFrequency
parseFrequency(str) ==
    LET r == strtoul(str)
    IN IF r.end < Len(str) /\ str[r.end + 1] # ";" THEN [ok |-> FALSE, freq |-> 0]
       ELSE IF r.val < FREQ_MIN \/ r.val > FREQ_MAX THEN [ok |-> FALSE, freq |-> 0]
       ELSE [ok |-> TRUE, freq |-> r.val]

\* handleFA that answers with %lu in place of %09lu
handleFA_noPad(st, params) ==
    IF strlen(params) = 0
    THEN sendResponse(st, snprintf(16, <<"F","A">> \o fmtInt(st.freqVfoA)))
    ELSE LET p == parseFrequency(params)
         IN noResponse(IF p.ok THEN [st EXCEPT !.freqVfoA = p.freq] ELSE st)

\* CATParser::handleFA
handleFA(st, params) ==
    IF strlen(params) = 0
    THEN sendResponse(st, snprintf(16, <<"F","A">> \o fmtZero(9, st.freqVfoA)))
    ELSE LET p == parseFrequency(params)
         IN noResponse(IF p.ok THEN [st EXCEPT !.freqVfoA = p.freq] ELSE st)

\* CATParser::handleFB
handleFB(st, params) ==
    IF strlen(params) = 0
    THEN sendResponse(st, snprintf(16, <<"F","B">> \o fmtZero(9, st.freqVfoB)))
    ELSE LET p == parseFrequency(params)
         IN noResponse(IF p.ok THEN [st EXCEPT !.freqVfoB = p.freq] ELSE st)

\* CATParser::formatIF
formatIF(st) ==
    LET ritOffset == IF st.ritOn THEN st.ritOffset ELSE 0
    IN snprintf(32, <<"I","F">> \o fmtZero(9, getCurrentFreq(st)) \o fmtPlus05(ritOffset)
                    \o <<"0">> \o fmtZero(2, getCurrentMode(st))
                    \o <<"0","0","0","0","0","0","0","0","0","0">>)

\* CATParser::handleIF
handleIF(st, params) == sendResponse(st, formatIF(st))

\* CATParser::handleID
handleID(st, params) == sendResponse(st, snprintf(8, <<"I","D","0","6","7","0">>))

\* c - '0': the digits give 0..9 and the ASCII characters after '9' give
\* 10 (':'), 12 ('<'), 13 ('='), 14 ('>'); ';' (11) never reaches a buffer.
\* Every other character gives a value outside 1..14, -1 here.
charMinusZero(c) ==
    CASE isdigit(c) -> digitValue(c)
      [] c = ":"    -> 10
      [] c = "<"    -> 12
      [] c = "="    -> 13
      [] c = ">"    -> 14
      [] OTHER      -> -1

\* CATParser::handleMD
handleMD(st, params) ==
    IF strlen(params) = 0
    THEN sendResponse(st, snprintf(8, <<"M","D","0">> \o fmtInt(getCurrentMode(st))))
    ELSE IF strlen(params) >= 2
    THEN LET mode == charMinusZero(params[2])
         IN noResponse(IF mode >= 1 /\ mode <= 14 THEN setCurrentMode(st, mode) ELSE st)
    ELSE noResponse(st)

\* CATParser::handlePS
handlePS(st, params) ==
    IF strlen(params) = 0
    THEN sendResponse(st, snprintf(4, <<"P","S">> \o fmtInt(IF st.powerOn THEN 1 ELSE 0)))
    ELSE noResponse([st EXCEPT !.powerOn = (params[1] = "1")])

\* CATParser::handleSM
handleSM(st, params) ==
    sendResponse(st, snprintf(8, <<"S","M","0">> \o fmtZero(3, st.smeter)))

\* handleTX that answers a write as well
handleTX_answersWrite(st, params) ==
    sendResponse([st EXCEPT !.ptt = IF strlen(params) = 0 THEN @ ELSE params[1] # "0"],
                 snprintf(4, <<"T","X">> \o fmtInt(IF st.ptt THEN 1 ELSE 0)))

\* CATParser::handleTX
handleTX(st, params) ==
    IF strlen(params) = 0
    THEN sendResponse(st, snprintf(4, <<"T","X">> \o fmtInt(IF st.ptt THEN 1 ELSE 0)))
    ELSE noResponse([st EXCEPT !.ptt = (params[1] # "0")])

\* CATParser::handleRX
handleRX(st, params) == noResponse([st EXCEPT !.ptt = FALSE])

\* CATParser::handleVS
handleVS(st, params) ==
    IF strlen(params) = 0
    THEN sendResponse(st, snprintf(8, <<"V","S">>
                                      \o fmtInt(IF st.currentVfo = "VFO_A" THEN 0 ELSE 1)))
    ELSE noResponse([st EXCEPT !.currentVfo = IF params[1] = "0" THEN "VFO_A" ELSE "VFO_B"])

\* CATParser::handleRI
handleRI(st, params) ==
    IF strlen(params) = 0
    THEN sendResponse(st, snprintf(4, <<"R","I">> \o fmtInt(IF st.ritOn THEN 1 ELSE 0)))
    ELSE noResponse([st EXCEPT !.ritOn = (params[1] = "1")])

\* CATParser::handleXT
handleXT(st, params) ==
    IF strlen(params) = 0
    THEN sendResponse(st, snprintf(4, <<"X","T">> \o fmtInt(IF st.xitOn THEN 1 ELSE 0)))
    ELSE noResponse([st EXCEPT !.xitOn = (params[1] = "1")])

\* CATParser::handleRD
handleRD(st, params) ==
    IF strlen(params) >= 4
    THEN noResponse([st EXCEPT !.ritOffset = constrain(toInt16(atoi(params)), -9999, 9999)])
    ELSE noResponse([st EXCEPT !.ritOffset = constrain(st.ritOffset - 10, -9999, 9999)])

\* CATParser::handleRU
handleRU(st, params) ==
    IF strlen(params) >= 4
    THEN noResponse([st EXCEPT !.ritOffset = constrain(toInt16(atoi(params)), -9999, 9999)])
    ELSE noResponse([st EXCEPT !.ritOffset = constrain(st.ritOffset + 10, -9999, 9999)])

\* CATParser::handleAG
handleAG(st, params) ==
    IF strlen(params) = 0 \/ strlen(params) = 1
    THEN sendResponse(st, snprintf(8, <<"A","G","0">> \o fmtZero(3, st.afGain)))
    ELSE IF strlen(params) >= 4
    THEN noResponse([st EXCEPT
            !.afGain = constrain(atoi(SubSeq(params, 2, Len(params))), 0, 255)])
    ELSE noResponse(st)

\* CATParser::handleRG
handleRG(st, params) ==
    IF strlen(params) = 0 \/ strlen(params) = 1
    THEN sendResponse(st, snprintf(8, <<"R","G","0">> \o fmtZero(3, st.rfGain)))
    ELSE IF strlen(params) >= 4
    THEN noResponse([st EXCEPT
            !.rfGain = constrain(atoi(SubSeq(params, 2, Len(params))), 0, 255)])
    ELSE noResponse(st)

\* handleSQ that stores the value as it comes
handleSQ_noClamp(st, params) ==
    IF strlen(params) = 0 \/ strlen(params) = 1
    THEN sendResponse(st, snprintf(8, <<"S","Q","0">> \o fmtZero(3, st.squelch)))
    ELSE IF strlen(params) >= 4
    THEN noResponse([st EXCEPT !.squelch = atoi(SubSeq(params, 2, Len(params)))])
    ELSE noResponse(st)

\* CATParser::handleSQ
handleSQ(st, params) ==
    IF strlen(params) = 0 \/ strlen(params) = 1
    THEN sendResponse(st, snprintf(8, <<"S","Q","0">> \o fmtZero(3, st.squelch)))
    ELSE IF strlen(params) >= 4
    THEN noResponse([st EXCEPT
            !.squelch = constrain(atoi(SubSeq(params, 2, Len(params))), 0, 100)])
    ELSE noResponse(st)

\* CATParser::handleRM (the meter number is a digit in the model)
handleRM(st, params) ==
    LET meter == IF strlen(params) >= 1 THEN charMinusZero(params[1]) ELSE 1
        value == CASE meter = 1 -> st.smeter
                   [] meter = 2 -> st.powerMeter
                   [] meter = 3 -> st.swrMeter
                   [] meter = 4 -> st.alcMeter
                   [] meter = 5 -> st.compMeter
                   [] OTHER     -> 0
    IN sendResponse(st, snprintf(16, <<"R","M">> \o fmtInt(meter) \o fmtZero(3, value)))

\* CATParser::processCommand on the buffered command (terminator removed):
\* the state afterwards and the frames written
CAT_processCommand(st, buffer) ==
    IF Len(buffer) < 2 THEN noResponse(st)
    ELSE LET cmd    == SubSeq(buffer, 1, 2)
             params == SubSeq(buffer, 3, Len(buffer))
         IN CASE cmd = <<"F","A">> -> handleFA(st, params)
              [] cmd = <<"F","B">> -> handleFB(st, params)
              [] cmd = <<"I","F">> -> handleIF(st, params)
              [] cmd = <<"I","D">> -> handleID(st, params)
              [] cmd = <<"M","D">> -> handleMD(st, params)
              [] cmd = <<"P","S">> -> handlePS(st, params)
              [] cmd = <<"S","M">> -> handleSM(st, params)
              [] cmd = <<"T","X">> -> handleTX(st, params)
              [] cmd = <<"R","X">> -> handleRX(st, params)
              [] cmd = <<"V","S">> -> handleVS(st, params)
              [] cmd = <<"R","I">> -> handleRI(st, params)
              [] cmd = <<"X","T">> -> handleXT(st, params)
              [] cmd = <<"R","D">> -> handleRD(st, params)
              [] cmd = <<"R","U">> -> handleRU(st, params)
              [] cmd = <<"A","G">> -> handleAG(st, params)
              [] cmd = <<"R","G">> -> handleRG(st, params)
              [] cmd = <<"S","Q">> -> handleSQ(st, params)
              [] cmd = <<"R","M">> -> handleRM(st, params)
              [] OTHER -> noResponse(st)

\* CATParser::CATParser with a YaesuState just reset
NewCAT == [state |-> YaesuState_reset, buffer |-> <<>>, tx |-> <<>>]

\* The loop body that tests _bufLen against CAT_BUFFER_SIZE, not against
\* CAT_BUFFER_SIZE - 1
CAT_byte_noRoomForNul(p, c) ==
    IF c = CAT_TERMINATOR
    THEN LET r == IF Len(p.buffer) > 0
                  THEN CAT_processCommand(p.state, p.buffer)
                  ELSE noResponse(p.state)
         IN [state |-> r.st, buffer |-> <<>>, tx |-> p.tx \o r.tx]
    ELSE IF c \in ControlChars THEN p
    ELSE IF Len(p.buffer) < CAT_BUFFER_SIZE
    THEN [p EXCEPT !.buffer = Append(@, toupper(c))]
    ELSE [p EXCEPT !.buffer = <<>>]

\* The body of the loop of CATParser::update for the byte c
CAT_byte(p, c) ==
    IF c = CAT_TERMINATOR
    THEN LET r == IF Len(p.buffer) > 0
                  THEN CAT_processCommand(p.state, p.buffer)
                  ELSE noResponse(p.state)
         IN [state |-> r.st, buffer |-> <<>>, tx |-> p.tx \o r.tx]
    ELSE IF c \in ControlChars THEN p
    ELSE IF Len(p.buffer) < CAT_BUFFER_SIZE - 1
    THEN [p EXCEPT !.buffer = Append(@, toupper(c))]
    ELSE [p EXCEPT !.buffer = <<>>]

\* The loop of CATParser::update over bytes[lo..hi] in the order of
\* arrival: q is the parser after the first half of the range (halving the
\* range keeps the evaluation shallow)
RECURSIVE CAT_consume(_, _, _, _)
CAT_consume(p, bytes, lo, hi) ==
    IF lo > hi THEN p
    ELSE IF lo = hi THEN CAT_byte(p, bytes[lo])
    ELSE CHOOSE r \in {CAT_consume(q, bytes, ((lo + hi) \div 2) + 1, hi) :
                         q \in {CAT_consume(p, bytes, lo, (lo + hi) \div 2)}} : TRUE

\* CATParser::update with bytes available on the port; tx collects what
\* this call writes
CATParser_update(p, bytes) == CAT_consume([p EXCEPT !.tx = <<>>], bytes, 1, Len(bytes))

\* YaesuDevice::setMeter on the radio state
setMeter(st, type, value) ==
    CASE type = "SMETER" -> [ret |-> TRUE, st |-> [st EXCEPT !.smeter = value]]
      [] type = "POWER"  -> [ret |-> TRUE, st |-> [st EXCEPT !.powerMeter = value]]
      [] type = "SWR"    -> [ret |-> TRUE, st |-> [st EXCEPT !.swrMeter = value]]
      [] type = "ALC"    -> [ret |-> TRUE, st |-> [st EXCEPT !.alcMeter = value]]
      [] type = "COMP"   -> [ret |-> TRUE, st |-> [st EXCEPT !.compMeter = value]]
      [] OTHER           -> [ret |-> FALSE, st |-> st]

-----------------------------------------------------------------------------
(* G-5500 rotator: GS-232 commands and the rotation simulation *)

\* G5500State::rotateCW / rotateCCW / rotateUp / rotateDown
rotateCW(st)   == [st EXCEPT !.azRotation = "CW",  !.azGotoMode = FALSE]
rotateCCW(st)  == [st EXCEPT !.azRotation = "CCW", !.azGotoMode = FALSE]
rotateUp(st)   == [st EXCEPT !.elRotation = "CW",  !.elGotoMode = FALSE]
rotateDown(st) == [st EXCEPT !.elRotation = "CCW", !.elGotoMode = FALSE]

\* gotoAzimuth that always turns clockwise
gotoAzimuth_alwaysCW(st, target) ==
    [st EXCEPT !.targetAzimuth = constrain(target, AZ_MIN, AZ_MAX),
               !.azGotoMode = TRUE, !.azRotation = "CW"]

\* G5500State::gotoAzimuth (target in millidegrees)
gotoAzimuth(st, target) ==
    LET t == constrain(target, AZ_MIN, AZ_MAX)
    IN IF t > st.azimuth
       THEN [st EXCEPT !.targetAzimuth = t, !.azGotoMode = TRUE, !.azRotation = "CW"]
       ELSE IF t < st.azimuth
       THEN [st EXCEPT !.targetAzimuth = t, !.azGotoMode = TRUE, !.azRotation = "CCW"]
       ELSE [st EXCEPT !.targetAzimuth = t, !.azGotoMode = FALSE, !.azRotation = "STOPPED"]

\* GS232Parser::parseAngle: ok is the return value, angle the parsed degrees
parseAngle(str) ==
    IF Len(str) = 0 THEN [ok |-> FALSE, angle |-> 0]
    ELSE LET i0  == skipSpaces(str, 1)
             neg == i0 <= Len(str) /\ str[i0] = "-"
             i1  == IF i0 <= Len(str) /\ (str[i0] = "-" \/ str[i0] = "+") THEN i0 + 1 ELSE i0
             i2  == skipDigits(str, i1)
             mag == digitsValue(str, i1, i2, 0)
         IN IF i2 = i1 THEN [ok |-> FALSE, angle |-> 0]
            ELSE [ok |-> TRUE, angle |-> IF neg THEN 0 - mag ELSE mag]

\* G5500State::gotoElevation (target in millidegrees)
gotoElevation(st, target) ==
    LET t == constrain(target, EL_MIN, EL_MAX)
    IN IF t > st.elevation
       THEN [st EXCEPT !.targetElevation = t, !.elGotoMode = TRUE, !.elRotation = "CW"]
       ELSE IF t < st.elevation
       THEN [st EXCEPT !.targetElevation = t, !.elGotoMode = TRUE, !.elRotation = "CCW"]
       ELSE [st EXCEPT !.targetElevation = t, !.elGotoMode = FALSE, !.elRotation = "STOPPED"]

\* GS232Parser::handleM; the code compares the parsed degrees with (int)AZ_MIN
\* and (int)AZ_MAX
handleM(st, params) ==
    LET p == parseAngle(params)
    IN IF ~p.ok THEN st
       ELSE IF p.angle < AZ_MIN \div 1000 \/ p.angle > AZ_MAX \div 1000 THEN st
       ELSE gotoAzimuth(st, p.angle * 1000)

\* strchr(s, c): the index of the first c in s, 0 (nullptr) when there is none
strchr(s, c) ==
    IF \E i \in 1..Len(s) : s[i] = c
    THEN CHOOSE i \in 1..Len(s) : s[i] = c /\ \A j \in 1..(i - 1) : s[j] # c
    ELSE 0

\* GS232Parser::handleW; azStr holds at most 7 characters of the azimuth field
handleW(st, params) ==
    LET space == strchr(params, " ")
        azLen == IF space - 1 >= 8 THEN 7 ELSE space - 1
        az    == parseAngle(SubSeq(params, 1, azLen))
        el    == parseAngle(SubSeq(params, space + 1, Len(params)))
    IN IF space = 0 THEN st
       ELSE IF ~az.ok THEN st
       ELSE IF ~el.ok THEN st
       ELSE IF az.angle < AZ_MIN \div 1000 \/ az.angle > AZ_MAX \div 1000 THEN st
       ELSE IF el.angle < EL_MIN \div 1000 \/ el.angle > EL_MAX \div 1000 THEN st
       ELSE gotoElevation(gotoAzimuth(st, az.angle * 1000), el.angle * 1000)

\* GS232Parser::processCommand on a buffered command, the effect on the
\* state; the commands that only answer (C, B) leave it as it is
GS232_processCommand(st, buffer) ==
    IF Len(buffer) = 0 THEN st
    ELSE CASE buffer[1] = "R" -> rotateCW(st)
           [] buffer[1] = "L" -> rotateCCW(st)
           [] buffer[1] = "A" -> stopAzimuth(st)
           [] buffer[1] = "U" -> rotateUp(st)
           [] buffer[1] = "D" -> rotateDown(st)
           [] buffer[1] = "E" -> stopElevation(st)
           [] buffer[1] = "S" -> stopAll(st)
           [] buffer[1] = "M" -> handleM(st, SubSeq(buffer, 2, Len(buffer)))
           [] buffer[1] = "W" -> handleW(st, SubSeq(buffer, 2, Len(buffer)))
           [] OTHER -> st

\* G5500State::getAzimuthInt / getElevationInt: (int)(degrees + 0.5f)
getAzimuthInt(st) == (st.azimuth + 500) \div 1000
getElevationInt(st) == (st.elevation + 500) \div 1000

\* GS232Parser::handleC: the response to C and to C2
handleC(st, buffer) ==
    IF Len(buffer) >= 2 /\ buffer[2] = "2"
    THEN snprintf(32, <<"+", "0">> \o fmtZero(3, getAzimuthInt(st)) \o
                      <<" ", "+", "0">> \o fmtZero(3, getElevationInt(st)))
    ELSE snprintf(32, <<"+", "0">> \o fmtZero(3, getAzimuthInt(st)))

\* GS232Parser::handleB: the response to B
handleB(st) == snprintf(16, <<"+", "0">> \o fmtZero(3, getElevationInt(st)))

\* GS232Parser::processCommand on a buffered command, the lines it writes to
\* the port (sendResponse ends each with CR LF)
GS232_response(st, buffer) ==
    IF Len(buffer) = 0 THEN <<>>
    ELSE CASE buffer[1] = "C" -> <<handleC(st, buffer) \o <<"\r", "\n">>>>
           [] buffer[1] = "B" -> <<handleB(st) \o <<"\r", "\n">>>>
           [] OTHER -> <<>>

\* GS232Parser::update on one received byte c; p is the parser with the
\* state it refers to: state, buffer, and the lines written so far (tx)
GS232_byte(p, c) ==
    IF c \in ControlChars
    THEN IF Len(p.buffer) > 0
         THEN [state  |-> GS232_processCommand(p.state, p.buffer),
               buffer |-> <<>>,
               tx     |-> p.tx \o GS232_response(p.state, p.buffer)]
         ELSE p
    ELSE IF Len(p.buffer) < CAT_BUFFER_SIZE - 1
    THEN [p EXCEPT !.buffer = Append(@, toupper(c))]
    ELSE p

\* GS232Parser::update: the loop over the bytes lo..hi waiting on the port
RECURSIVE GS232_consume(_, _, _, _)
GS232_consume(p, bytes, lo, hi) ==
    IF lo > hi THEN p
    ELSE IF lo = hi THEN GS232_byte(p, bytes[lo])
    ELSE CHOOSE r \in {GS232_consume(q, bytes, ((lo + hi) \div 2) + 1, hi) :
                         q \in {GS232_consume(p, bytes, lo, (lo + hi) \div 2)}} : TRUE

\* GS232Parser::update with bytes waiting on the port
GS232Parser_update(p, bytes) == GS232_consume([p EXCEPT !.tx = <<>>], bytes, 1, Len(bytes))

\* The azimuth part without the stop at the target of a goto
simulateAzimuth_noTargetStop(st, azSpeed, deltaMs) ==
    IF st.azRotation = "STOPPED" THEN st
    ELSE IF st.azRotation = "CW"
    THEN IF st.azimuth + azSpeed * deltaMs > AZ_MAX
         THEN stopAzimuth([st EXCEPT !.azimuth = AZ_MAX])
         ELSE [st EXCEPT !.azimuth = @ + azSpeed * deltaMs]
    ELSE IF st.azimuth - azSpeed * deltaMs < AZ_MIN
         THEN stopAzimuth([st EXCEPT !.azimuth = AZ_MIN])
         ELSE [st EXCEPT !.azimuth = @ - azSpeed * deltaMs]

\* The azimuth part that stops at the stored target under manual rotation too
simulateAzimuth_manualTarget(st, azSpeed, deltaMs) ==
    IF st.azRotation = "STOPPED" THEN st
    ELSE IF st.azRotation = "CW"
    THEN IF st.azimuth + azSpeed * deltaMs >= st.targetAzimuth
         THEN stopAzimuth([st EXCEPT !.azimuth = st.targetAzimuth])
         ELSE [st EXCEPT !.azimuth = @ + azSpeed * deltaMs]
    ELSE IF st.azimuth - azSpeed * deltaMs <= st.targetAzimuth
         THEN stopAzimuth([st EXCEPT !.azimuth = st.targetAzimuth])
         ELSE [st EXCEPT !.azimuth = @ - azSpeed * deltaMs]

\* The azimuth part of G5500Device::simulateRotation; azDelta is
\* azSpeed (deg/s) * deltaMs / 1000 s, in millidegrees azSpeed * deltaMs
simulateAzimuth(st, azSpeed, deltaMs) ==
    IF st.azRotation = "STOPPED" THEN st
    ELSE LET azDelta == azSpeed * deltaMs
         IN IF st.azRotation = "CW"
            THEN LET s1 == [st EXCEPT !.azimuth = @ + azDelta]
                     s2 == IF s1.azGotoMode /\ s1.azimuth >= s1.targetAzimuth
                           THEN stopAzimuth([s1 EXCEPT !.azimuth = s1.targetAzimuth])
                           ELSE s1
                 IN IF s2.azimuth > AZ_MAX
                    THEN stopAzimuth([s2 EXCEPT !.azimuth = AZ_MAX]) ELSE s2
            ELSE LET s1 == [st EXCEPT !.azimuth = @ - azDelta]
                     s2 == IF s1.azGotoMode /\ s1.azimuth <= s1.targetAzimuth
                           THEN stopAzimuth([s1 EXCEPT !.azimuth = s1.targetAzimuth])
                           ELSE s1
                 IN IF s2.azimuth < AZ_MIN
                    THEN stopAzimuth([s2 EXCEPT !.azimuth = AZ_MIN]) ELSE s2

\* The elevation part without the clamps at the range bounds
simulateElevation_noClamp(st, elSpeed, deltaMs) ==
    IF st.elRotation = "STOPPED" THEN st
    ELSE IF st.elRotation = "CW"
    THEN IF st.elGotoMode /\ st.elevation + elSpeed * deltaMs >= st.targetElevation
         THEN stopElevation([st EXCEPT !.elevation = st.targetElevation])
         ELSE [st EXCEPT !.elevation = @ + elSpeed * deltaMs]
    ELSE IF st.elGotoMode /\ st.elevation - elSpeed * deltaMs <= st.targetElevation
         THEN stopElevation([st EXCEPT !.elevation = st.targetElevation])
         ELSE [st EXCEPT !.elevation = @ - elSpeed * deltaMs]

\* The elevation part of G5500Device::simulateRotation
simulateElevation(st, elSpeed, deltaMs) ==
    IF st.elRotation = "STOPPED" THEN st
    ELSE LET elDelta == elSpeed * deltaMs
         IN IF st.elRotation = "CW"
            THEN LET s1 == [st EXCEPT !.elevation = @ + elDelta]
                     s2 == IF s1.elGotoMode /\ s1.elevation >= s1.targetElevation
                           THEN stopElevation([s1 EXCEPT !.elevation = s1.targetElevation])
                           ELSE s1
                 IN IF s2.elevation > EL_MAX
                    THEN stopElevation([s2 EXCEPT !.elevation = EL_MAX]) ELSE s2
            ELSE LET s1 == [st EXCEPT !.elevation = @ - elDelta]
                     s2 == IF s1.elGotoMode /\ s1.elevation <= s1.targetElevation
                           THEN stopElevation([s1 EXCEPT !.elevation = s1.targetElevation])
                           ELSE s1
                 IN IF s2.elevation < EL_MIN
                    THEN stopElevation([s2 EXCEPT !.elevation = EL_MIN]) ELSE s2

\* simulateRotation that takes the timestamp even when it does not integrate
simulateRotation_restamps(d, t) ==
    IF t - d.state.lastUpdateMs < MIN_UPDATE_INTERVAL
    THEN [d EXCEPT !.state.lastUpdateMs = t]
    ELSE [d EXCEPT !.state = simulateElevation(
                       simulateAzimuth([d.state EXCEPT !.lastUpdateMs = t],
                                       d.options[2], t - d.state.lastUpdateMs),
                       d.options[3], t - d.state.lastUpdateMs)]

\* G5500Device::simulateRotation at time t (millis())
simulateRotation(d, t) ==
    LET deltaMs == t - d.state.lastUpdateMs
    IN IF deltaMs < MIN_UPDATE_INTERVAL THEN d
       ELSE LET s0 == [d.state EXCEPT !.lastUpdateMs = t]
                s1 == simulateAzimuth(s0, d.options[2], deltaMs)
            IN [d EXCEPT !.state = simulateElevation(s1, d.options[3], deltaMs)]

-----------------------------------------------------------------------------
(* NMEA GPS: the periodic output *)

\* advanceTime with a 30-day month
advanceTime_30day(st) ==
    IF st.second + 1 < 60 THEN [st EXCEPT !.second = @ + 1]
    ELSE IF st.minute + 1 < 60 THEN [st EXCEPT !.second = 0, !.minute = @ + 1]
    ELSE IF st.hour + 1 < 24 THEN [st EXCEPT !.second = 0, !.minute = 0, !.hour = @ + 1]
    ELSE IF st.day + 1 <= 30
    THEN [st EXCEPT !.second = 0, !.minute = 0, !.hour = 0, !.day = @ + 1]
    ELSE IF st.month + 1 <= 12
    THEN [st EXCEPT !.second = 0, !.minute = 0, !.hour = 0, !.day = 1, !.month = @ + 1]
    ELSE [st EXCEPT !.second = 0, !.minute = 0, !.hour = 0, !.day = 1, !.month = 1,
                    !.year = @ + 1]

\* NMEAGPSState::advanceTime
advanceTime(st) ==
    IF st.second + 1 < 60 THEN [st EXCEPT !.second = @ + 1]
    ELSE IF st.minute + 1 < 60 THEN [st EXCEPT !.second = 0, !.minute = @ + 1]
    ELSE IF st.hour + 1 < 24 THEN [st EXCEPT !.second = 0, !.minute = 0, !.hour = @ + 1]
    ELSE IF st.day + 1 <= 28
    THEN [st EXCEPT !.second = 0, !.minute = 0, !.hour = 0, !.day = @ + 1]
    ELSE IF st.month + 1 <= 12
    THEN [st EXCEPT !.second = 0, !.minute = 0, !.hour = 0, !.day = 1, !.month = @ + 1]
    ELSE [st EXCEPT !.second = 0, !.minute = 0, !.hour = 0, !.day = 1, !.month = 1,
                    !.year = @ + 1]

\* NMEAGPSDevice::getUpdateIntervalMs
getUpdateIntervalMs(d) ==
    LET rateIndex == IF d.options[2] >= NMEA_NUM_UPDATE_RATES
                     THEN NMEA_DEFAULT_RATE_INDEX ELSE d.options[2]
    IN 1000 \div NMEA_UPDATE_RATE_VALUES[rateIndex + 1]

-----------------------------------------------------------------------------
(* NMEA GPS: the sentence generator (NMEAGenerator) *)

NMEA_SENTENCE_MAX_LEN == 83

\* sizeof(altStr) in NMEAGenerator::outputGGA
ALT_STR_SIZE == 12

S_GPGGA == <<"$","G","P","G","G","A">>
S_GPRMC == <<"$","G","P","R","M","C">>
S_GPGSA == <<"$","G","P","G","S","A">>
S_GPGSV == <<"$","G","P","G","S","V">>
S_GPVTG == <<"$","G","P","V","T","G">>

\* The character code of a character of a sentence
ascii(c) ==
    CASE c = "$"  -> 36
      [] c = ";"  -> 59
      [] c = "*"  -> 42
      [] c = ","  -> 44
      [] c = "-"  -> 45
      [] c = "."  -> 46
      [] c = "\r" -> 13
      [] c = "\n" -> 10
      [] isdigit(c) -> 48 + digitValue(c)
      [] OTHER -> 64 + (CHOOSE i \in 1..26 : UpperChars[i] = c)

\* a ^ b on unsigned values
RECURSIVE xorBits(_, _)
xorBits(a, b) ==
    IF a = 0 THEN b
    ELSE IF b = 0 THEN a
    ELSE ((a + b) % 2) + 2 * xorBits(a \div 2, b \div 2)

\* The loop of calculateChecksum over the characters lo..hi: XOR is
\* associative, the range is folded by halves
RECURSIVE xorRange(_, _, _)
xorRange(sentence, lo, hi) ==
    IF lo > hi THEN 0
    ELSE IF lo = hi THEN ascii(sentence[lo])
    ELSE CHOOSE x \in {xorBits(l, r) : l \in {xorRange(sentence, lo, (lo + hi) \div 2)},
                                       r \in {xorRange(sentence, (lo + hi) \div 2 + 1, hi)}} : TRUE

\* NMEAGenerator::calculateChecksum: a leading '$' is skipped, the XOR runs
\* up to the first '*' or the end of the string
calculateChecksum(sentence) ==
    xorRange(sentence,
             IF Len(sentence) > 0 /\ sentence[1] = "$" THEN 2 ELSE 1,
             IF strchr(sentence, "*") = 0 THEN Len(sentence) ELSE strchr(sentence, "*") - 1)

HexChars == DigitChars \o <<"A", "B", "C", "D", "E", "F">>

\* printf's %02X of a uint8_t
fmtHex02(n) == <<HexChars[(n \div 16) + 1], HexChars[(n % 16) + 1]>>

\* snprintf(finalSentence, sizeof(finalSentence), "%s*%02X\r\n", sentence, checksum)
finalSentence(sentence, checksum) ==
    snprintf(NMEA_SENTENCE_MAX_LEN, sentence \o <<"*">> \o fmtHex02(checksum) \o <<"\r", "\n">>)

\* NMEAGenerator::sendSentence: what _serial.print(finalSentence) writes
sendSentence(sentence) ==
    CHOOSE out \in {finalSentence(s, calculateChecksum(s)) : s \in {sentence}} : TRUE

\* fmtFloat(buf, val, 1, 1), i.e. dtostrf(val, 1, 1, buf), of a value in tenths
fmtFloat(tenths) ==
    IF tenths < 0 THEN <<"-">> \o decStr((0 - tenths) \div 10) \o <<".">> \o decStr((0 - tenths) % 10)
    ELSE decStr(tenths \div 10) \o <<".">> \o decStr(tenths % 10)

\* fmtFloat(altStr, _state.altitude, 1, 1): dtostrf writes all the digits of
\* the whole part, however many they are
fmtAltitude(alt) ==
    (IF alt.neg THEN <<"-">> ELSE <<>>) \o alt.whole \o <<".">> \o decStr(alt.tenth)

\* dtostrf(minutes, 7, 4, minBuf) with its leading spaces replaced by zeros;
\* micro is the fraction of a degree in microdegrees
minutesStr(micro) ==
    LET r == (micro * 60 + 50) \div 100
    IN fmtZero(2, r \div 10000) \o <<".">> \o fmtZero(4, r % 10000)

\* NMEAGenerator::formatLatitude
formatLatitude(lat) ==
    LET absLat == IF lat < 0 THEN 0 - lat ELSE lat
    IN snprintf(12, fmtZero(2, absLat \div 1000000) \o minutesStr(absLat % 1000000))

\* NMEAGenerator::formatLongitude
formatLongitude(lon) ==
    LET absLon == IF lon < 0 THEN 0 - lon ELSE lon
    IN snprintf(12, fmtZero(3, absLon \div 1000000) \o minutesStr(absLon % 1000000))

\* NMEAGenerator::formatTime
formatTime(st) ==
    snprintf(11, fmtZero(2, st.hour) \o fmtZero(2, st.minute) \o fmtZero(2, st.second)
                 \o <<".", "0", "0">>)

\* NMEAGenerator::formatDate
formatDate(st) ==
    snprintf(7, fmtZero(2, st.day) \o fmtZero(2, st.month) \o fmtZero(2, st.year % 100))

hasValidFix(st) == st.fixQuality > 0

getLatHemisphere(st) == IF st.latitude >= 0 THEN "N" ELSE "S"

getLonHemisphere(st) == IF st.longitude >= 0 THEN "E" ELSE "W"

\* The fields of a format string that has a comma between any two of them
RECURSIVE commaJoin(_)
commaJoin(fields) ==
    IF Len(fields) = 0 THEN <<>>
    ELSE IF Len(fields) = 1 THEN fields[1]
    ELSE fields[1] \o <<",">> \o commaJoin(Tail(fields))

\* The snprintf of outputGGA, given what hdopStr, altStr and geoidStr hold
\* when it reads them
GGA_buffer(st, hdopStr, altStr, geoidStr) ==
    snprintf(NMEA_SENTENCE_MAX_LEN,
             commaJoin(<<S_GPGGA, formatTime(st),
                         formatLatitude(st.latitude), <<getLatHemisphere(st)>>,
                         formatLongitude(st.longitude), <<getLonHemisphere(st)>>,
                         fmtInt(st.fixQuality), fmtZero(2, st.numSatellites),
                         hdopStr, altStr, <<"M">>, geoidStr, <<"M">>, <<>>, <<>> >>))

\* What hdopStr[8], altStr[12] and geoidStr[12] hold after the three fmtFloat
\* calls of outputGGA, which the compiler may run in any order.  An altitude
\* text of ALT_STR_SIZE characters or more is written past the end of altStr:
\* the excess lands in memory the call does not read again, or in the array
\* laid out after altStr (geoidStr or hdopStr), which is either filled later
\* (altStr then runs on into that text) or was filled before (and then holds
\* the excess).
GGA_floatFields(h, a, g) ==
    IF Len(a) < ALT_STR_SIZE THEN {<<h, a, g>>}
    ELSE {<<h, a, g>>,
          <<h, SubSeq(a, 1, ALT_STR_SIZE) \o g, g>>,
          <<h, a, SubSeq(a, ALT_STR_SIZE + 1, Len(a))>>,
          <<h, SubSeq(a, 1, ALT_STR_SIZE) \o h, g>>,
          <<SubSeq(a, ALT_STR_SIZE + 1, Len(a)), a, g>>}

\* NMEAGenerator::outputGGA: the sentences it can write
outputGGA(st) ==
    {sendSentence(GGA_buffer(st, f[1], f[2], f[3])) :
        f \in GGA_floatFields(fmtFloat(st.hdop), fmtAltitude(st.altitude),
                              fmtFloat(st.geoidSep))}

\* NMEAGenerator::outputRMC
outputRMC(st) ==
    sendSentence(snprintf(NMEA_SENTENCE_MAX_LEN,
        commaJoin(<<S_GPRMC, formatTime(st), <<IF hasValidFix(st) THEN "A" ELSE "V">>,
                    formatLatitude(st.latitude), <<getLatHemisphere(st)>>,
                    formatLongitude(st.longitude), <<getLonHemisphere(st)>>,
                    fmtFloat(st.speedKnots), fmtFloat(st.courseTrue), formatDate(st),
                    fmtFloat(IF st.magVariation < 0 THEN 0 - st.magVariation
                             ELSE st.magVariation),
                    <<IF st.magVariation >= 0 THEN "E" ELSE "W">>, <<"A">> >>)))

\* The PRN field i (from 0) of outputGSA
GSA_prn(st, i) ==
    IF i < st.numSatsInView /\ st.sats[i + 1][1] > 0
    THEN fmtZero(2, st.sats[i + 1][1]) ELSE <<>>

\* NMEAGenerator::outputGSA
outputGSA(st) ==
    sendSentence(snprintf(NMEA_SENTENCE_MAX_LEN,
        commaJoin(<<S_GPGSA, <<"A">>, fmtInt(st.fixMode)>>
                  \o [i \in 1..12 |-> GSA_prn(st, i - 1)]
                  \o <<fmtFloat(st.pdop), fmtFloat(st.hdop), fmtFloat(st.vdop)>>)))

\* The four fields of the satellites satIdx (from 0) up to last of one GSV
RECURSIVE GSV_sats(_, _, _)
GSV_sats(st, satIdx, last) ==
    IF satIdx > last THEN <<>>
    ELSE <<fmtZero(2, st.sats[satIdx + 1][1]), fmtZero(2, st.sats[satIdx + 1][2]),
           fmtZero(3, st.sats[satIdx + 1][3]), fmtZero(2, st.sats[satIdx + 1][4])>>
         \o GSV_sats(st, satIdx + 1, last)

\* One pass of the loop of outputGSV: message msg of numMsgs
GSV_message(st, numMsgs, msg) ==
    sendSentence(snprintf(NMEA_SENTENCE_MAX_LEN,
        commaJoin(<<S_GPGSV, fmtInt(numMsgs), fmtInt(msg), fmtZero(2, st.numSatsInView)>>
                  \o GSV_sats(st, 4 * (msg - 1),
                              IF 4 * msg < st.numSatsInView THEN 4 * msg - 1
                              ELSE st.numSatsInView - 1))))

\* NMEAGenerator::outputGSV: four satellites per message
outputGSV(st) ==
    LET numMsgs == IF (st.numSatsInView + 3) \div 4 = 0 THEN 1
                   ELSE (st.numSatsInView + 3) \div 4
    IN [msg \in 1..numMsgs |-> GSV_message(st, numMsgs, msg)]

\* NMEAGenerator::outputVTG; speedKnots * 1.852f rounded to tenths
outputVTG(st) ==
    sendSentence(snprintf(NMEA_SENTENCE_MAX_LEN,
        commaJoin(<<S_GPVTG, fmtFloat(st.courseTrue), <<"T">>, fmtFloat(st.courseMag), <<"M">>,
                    fmtFloat(st.speedKnots), <<"N">>,
                    fmtFloat((st.speedKnots * 1852 + 500) \div 1000), <<"K">>, <<"A">> >>)))

\* NMEAGenerator::outputAll: the cycles it can write, sentence by sentence
outputAll(st) ==
    {<<gga>> \o rest : gga \in outputGGA(st),
                       rest \in {<<outputRMC(st), outputGSA(st)>> \o outputGSV(st)
                                 \o <<outputVTG(st)>>}}

\* NMEAGPSState::setPosition
setPosition(st, lat, lon, alt) ==
    [st EXCEPT !.latitude = lat, !.longitude = lon, !.altitude = alt]

-----------------------------------------------------------------------------
(* IEmulatedDevice::update of each device class.  rx is the command that  *)
(* arrived on the device's UART since the last call, with the terminator  *)
(* of the device's protocol after it (<<>>: nothing arrived); t is        *)
(* millis().                                                              *)

\* The parsers store toupper(c) for every received character
upcase(rx) == [i \in 1..Len(rx) |-> toupper(rx[i])]

\* YaesuDevice::update
Yaesu_update(d, rx, t) ==
    IF ~d.running THEN d
    ELSE IF Len(rx) = 0 THEN d
    ELSE [d EXCEPT !.state = CAT_processCommand(d.state, upcase(rx)).st, !.bufLen = 0]

\* G5500Device::update
G5500_update(d, rx, t) ==
    IF ~d.running THEN d
    ELSE LET d1 == IF Len(rx) = 0 THEN d
                   ELSE [d EXCEPT !.state = GS232_processCommand(d.state, upcase(rx)),
                                  !.bufLen = 0]
         IN simulateRotation(d1, t)

\* NMEAGPSDevice::update
NMEA_update(d, rx, t) ==
    IF ~d.running THEN d
    ELSE IF t - d.state.lastOutputMs >= getUpdateIntervalMs(d)
    THEN [d EXCEPT !.state = advanceTime([d.state EXCEPT !.lastOutputMs = t])]
    ELSE d

Device_update(d, rx, t) ==
    CASE d.kind = "YaesuDevice"   -> Yaesu_update(d, rx, t)
      [] d.kind = "G5500Device"   -> G5500_update(d, rx, t)
      [] d.kind = "NMEAGPSDevice" -> NMEA_update(d, rx, t)

-----------------------------------------------------------------------------
(* DeviceManager *)

\* The manager's members as one value
Mgr ==
    [factories |-> factories, devices |-> devices,
     deviceFactories |-> deviceFactories, uartAllocation |-> uartAllocation,
     serialPorts |-> serialPorts]

\* DeviceManager::DeviceManager
NewMgr ==
    [factories |-> <<>>,
     devices |-> [i \in 0..(MAX_DEVICES - 1) |-> NoDevice],
     deviceFactories |-> [i \in 0..(MAX_DEVICES - 1) |-> NULL],
     uartAllocation |-> [u \in 1..PLATFORM_MAX_UARTS |-> INVALID_ID],
     serialPorts |-> [u \in 1..PLATFORM_MAX_UARTS |-> NoPort]]

\* DeviceManager::registerFactory
registerFactory(m, factory) ==
    IF factory = NULL \/ Len(m.factories) >= MAX_DEVICE_FACTORIES
    THEN [ret |-> FALSE, m |-> m]
    ELSE IF \E i \in 1..Len(m.factories) :
                strcmp(getTypeName(m.factories[i]), getTypeName(factory)) = 0
    THEN [ret |-> FALSE, m |-> m]
    ELSE [ret |-> TRUE, m |-> [m EXCEPT !.factories = Append(@, factory)]]

\* DeviceManager::findFactory: the first factory whose type name equals
\* typeName ignoring case, NULL when there is none
findFactory(m, typeName) ==
    IF \E i \in 1..Len(m.factories) : strcasecmp(getTypeName(m.factories[i]), typeName) = 0
    THEN m.factories[CHOOSE i \in 1..Len(m.factories) :
            /\ strcasecmp(getTypeName(m.factories[i]), typeName) = 0
            /\ \A j \in 1..(i - 1) : strcasecmp(getTypeName(m.factories[j]), typeName) # 0]
    ELSE NULL

\* DeviceManager::resolveTypeName
resolveTypeName(typeOrCategory) ==
    IF strcasecmp(typeOrCategory, S_radio) = 0
    THEN (IF strlen(DEFAULT_RADIO_TYPE) > 0 THEN DEFAULT_RADIO_TYPE ELSE typeOrCategory)
    ELSE IF strcasecmp(typeOrCategory, S_rotator) = 0
    THEN (IF strlen(DEFAULT_ROTATOR_TYPE) > 0 THEN DEFAULT_ROTATOR_TYPE ELSE typeOrCategory)
    ELSE IF strcasecmp(typeOrCategory, S_gps) = 0
    THEN (IF strlen(DEFAULT_GPS_TYPE) > 0 THEN DEFAULT_GPS_TYPE ELSE typeOrCategory)
    ELSE typeOrCategory

\* DeviceManager::isUartAvailable
isUartAvailable(m, uartIndex) ==
    IF uartIndex = 0 \/ uartIndex > PLATFORM_MAX_UARTS THEN FALSE
    ELSE IF ~HAS_SERIAL1 /\ uartIndex = 1 THEN FALSE
    ELSE IF ~HAS_SERIAL2 /\ uartIndex = 2 THEN FALSE
    ELSE m.uartAllocation[uartIndex] = INVALID_ID

\* DeviceManager::getSerialForUart: ok is (result != nullptr), m the manager
\* afterwards (a wrapper is constructed on first use)
getSerialForUart(m, uartIndex) ==
    IF uartIndex = 0 \/ uartIndex > PLATFORM_MAX_UARTS THEN [ok |-> FALSE, m |-> m]
    ELSE IF m.serialPorts[uartIndex].created THEN [ok |-> TRUE, m |-> m]
    ELSE IF (uartIndex = 1 /\ HAS_SERIAL1) \/ (uartIndex = 2 /\ HAS_SERIAL2)
    THEN [ok |-> TRUE, m |-> [m EXCEPT !.serialPorts[uartIndex] = NewPort]]
    ELSE [ok |-> FALSE, m |-> m]

\* findFreeDeviceSlot that searches from the last slot down
findFreeDeviceSlot_highest(m) ==
    IF \E i \in 0..(MAX_DEVICES - 1) : m.devices[i] = NoDevice
    THEN CHOOSE i \in 0..(MAX_DEVICES - 1) :
            /\ m.devices[i] = NoDevice
            /\ \A j \in (i + 1)..(MAX_DEVICES - 1) : m.devices[j] # NoDevice
    ELSE INVALID_ID

\* DeviceManager::findFreeDeviceSlot
findFreeDeviceSlot(m) ==
    IF \E i \in 0..(MAX_DEVICES - 1) : m.devices[i] = NoDevice
    THEN CHOOSE i \in 0..(MAX_DEVICES - 1) :
            /\ m.devices[i] = NoDevice
            /\ \A j \in 0..(i - 1) : m.devices[j] # NoDevice
    ELSE INVALID_ID

\* DeviceManager::getDevice
getDevice(m, deviceId) ==
    IF deviceId >= MAX_DEVICES THEN NoDevice ELSE m.devices[deviceId]

\* DeviceManager::getDeviceByUart
getDeviceByUart(m, uartIndex) ==
    IF uartIndex = 0 \/ uartIndex > PLATFORM_MAX_UARTS THEN NoDevice
    ELSE IF m.uartAllocation[uartIndex] = INVALID_ID THEN NoDevice
    ELSE m.devices[m.uartAllocation[uartIndex]]

\* createDevice that forgets to record the UART's owner
createDevice_noAlloc(m, typeName, uartIndex, factoryOk) ==
    LET resolvedType == resolveTypeName(typeName)
        factory      == findFactory(m, resolvedType)
        slot         == findFreeDeviceSlot(m)
        serial       == getSerialForUart(m, uartIndex)
    IN IF uartIndex = 0 \/ uartIndex > PLATFORM_MAX_UARTS THEN [ret |-> INVALID_ID, m |-> m]
       ELSE IF ~isUartAvailable(m, uartIndex) THEN [ret |-> INVALID_ID, m |-> m]
       ELSE IF factory = NULL THEN [ret |-> INVALID_ID, m |-> m]
       ELSE IF slot = INVALID_ID THEN [ret |-> INVALID_ID, m |-> m]
       ELSE IF ~serial.ok THEN [ret |-> INVALID_ID, m |-> serial.m]
       ELSE IF ~factoryOk THEN [ret |-> INVALID_ID, m |-> serial.m]
       ELSE [ret |-> slot,
             m   |-> [serial.m EXCEPT
                        !.devices[slot] =
                            [NewDevice(FactoryClass(factory), uartIndex)
                                EXCEPT !.deviceId = slot],
                        !.deviceFactories[slot] = factory]]

\* createDevice that binds the factory to the slot before the factory has
\* produced a device
createDevice_earlyBind(m, typeName, uartIndex, factoryOk) ==
    LET resolvedType == resolveTypeName(typeName)
        factory      == findFactory(m, resolvedType)
        slot         == findFreeDeviceSlot(m)
        serial       == getSerialForUart(m, uartIndex)
    IN IF uartIndex = 0 \/ uartIndex > PLATFORM_MAX_UARTS THEN [ret |-> INVALID_ID, m |-> m]
       ELSE IF ~isUartAvailable(m, uartIndex) THEN [ret |-> INVALID_ID, m |-> m]
       ELSE IF factory = NULL THEN [ret |-> INVALID_ID, m |-> m]
       ELSE IF slot = INVALID_ID THEN [ret |-> INVALID_ID, m |-> m]
       ELSE IF ~serial.ok THEN [ret |-> INVALID_ID, m |-> serial.m]
       ELSE IF ~factoryOk
       THEN [ret |-> INVALID_ID,
             m   |-> [serial.m EXCEPT !.deviceFactories[slot] = factory]]
       ELSE [ret |-> slot,
             m   |-> [serial.m EXCEPT
                        !.devices[slot] =
                            [NewDevice(FactoryClass(factory), uartIndex)
                                EXCEPT !.deviceId = slot],
                        !.deviceFactories[slot] = factory,
                        !.uartAllocation[uartIndex] = slot]]

\* DeviceManager::createDevice: ret is the returned id, m the manager
\* afterwards; factoryOk tells whether IDeviceFactory::create returns a device
createDevice(m, typeName, uartIndex, factoryOk) ==
    LET resolvedType == resolveTypeName(typeName)
        factory      == findFactory(m, resolvedType)
        slot         == findFreeDeviceSlot(m)
        serial       == getSerialForUart(m, uartIndex)
    IN IF uartIndex = 0 \/ uartIndex > PLATFORM_MAX_UARTS THEN [ret |-> INVALID_ID, m |-> m]
       ELSE IF ~isUartAvailable(m, uartIndex) THEN [ret |-> INVALID_ID, m |-> m]
       ELSE IF factory = NULL THEN [ret |-> INVALID_ID, m |-> m]
       ELSE IF slot = INVALID_ID THEN [ret |-> INVALID_ID, m |-> m]
       ELSE IF ~serial.ok THEN [ret |-> INVALID_ID, m |-> serial.m]
       ELSE IF ~factoryOk THEN [ret |-> INVALID_ID, m |-> serial.m]
       ELSE [ret |-> slot,
             m   |-> [serial.m EXCEPT
                        !.devices[slot] =
                            [NewDevice(FactoryClass(factory), uartIndex)
                                EXCEPT !.deviceId = slot],
                        !.deviceFactories[slot] = factory,
                        !.uartAllocation[uartIndex] = slot]]

\* destroyDevice that leaves the UART allocated
destroyDevice_keepUart(m, deviceId) ==
    IF deviceId >= MAX_DEVICES THEN [ret |-> FALSE, m |-> m]
    ELSE IF m.devices[deviceId] = NoDevice THEN [ret |-> FALSE, m |-> m]
    ELSE LET device    == m.devices[deviceId]
             uartIndex == device.uartIndex
             ended     == Device_end(device, m.serialPorts[uartIndex])
             m1        == IF device.running
                          THEN [m EXCEPT !.serialPorts[uartIndex] = ended.port]
                          ELSE m
         IN [ret |-> TRUE,
             m   |-> [m1 EXCEPT !.devices[deviceId] = NoDevice,
                                !.deviceFactories[deviceId] = NULL]]

\* destroyDevice that leaves the factory binding of the slot
destroyDevice_keepFactory(m, deviceId) ==
    IF deviceId >= MAX_DEVICES THEN [ret |-> FALSE, m |-> m]
    ELSE IF m.devices[deviceId] = NoDevice THEN [ret |-> FALSE, m |-> m]
    ELSE LET device    == m.devices[deviceId]
             uartIndex == device.uartIndex
             ended     == Device_end(device, m.serialPorts[uartIndex])
             m1        == IF device.running
                          THEN [m EXCEPT !.serialPorts[uartIndex] = ended.port]
                          ELSE m
         IN [ret |-> TRUE,
             m   |-> [m1 EXCEPT !.devices[deviceId] = NoDevice,
                                !.uartAllocation[uartIndex] = INVALID_ID]]

\* DeviceManager::destroyDevice
destroyDevice(m, deviceId) ==
    IF deviceId >= MAX_DEVICES THEN [ret |-> FALSE, m |-> m]
    ELSE IF m.devices[deviceId] = NoDevice THEN [ret |-> FALSE, m |-> m]
    ELSE LET device    == m.devices[deviceId]
             uartIndex == device.uartIndex
             ended     == Device_end(device, m.serialPorts[uartIndex])
             m1        == IF device.running
                          THEN [m EXCEPT !.serialPorts[uartIndex] = ended.port]
                          ELSE m
             m2        == IF uartIndex > 0 /\ uartIndex <= PLATFORM_MAX_UARTS
                          THEN [m1 EXCEPT !.uartAllocation[uartIndex] = INVALID_ID]
                          ELSE m1
         IN [ret |-> TRUE,
             m   |-> [m2 EXCEPT !.devices[deviceId] = NoDevice,
                                !.deviceFactories[deviceId] = NULL]]

\* DeviceManager::updateAll; rx[u] is what arrived on UART u
updateAll(m, rx, t) ==
    [m EXCEPT !.devices =
        [i \in 0..(MAX_DEVICES - 1) |->
            IF m.devices[i] # NoDevice /\ m.devices[i].running
            THEN Device_update(m.devices[i], rx[m.devices[i].uartIndex], t)
            ELSE m.devices[i]]]

-----------------------------------------------------------------------------
(* ConfigStorage: the stored configuration and its restoration *)

CONFIG_MAGIC == 1380273493
CONFIG_VERSION == 1
MAX_OPTION_DATA_LEN == 32

\* The StoredConfig ConfigStorage::clear writes: all bytes zero.  devices
\* holds the leading StoredDeviceConfig entries, the entries after them are
\* zero; optionData holds the first three option bytes, the bytes after
\* them are zero.
ClearedConfig == [magic |-> 0, version |-> 0, deviceCount |-> 0, devices |-> <<>>]

ZeroEntry == [valid |-> 0, typeName |-> <<>>, uartIndex |-> 0, optionData |-> <<0, 0, 0>>]

\* config.devices[i] (i counts from 0)
storedEntry(config, i) ==
    IF i < Len(config.devices) THEN config.devices[i + 1] ELSE ZeroEntry

\* deserializeOptions that stores the speed bytes as they come
G5500_deserializeOptions_raw(d, buffer, len) ==
    IF len < 3 THEN [ret |-> FALSE, dev |-> d]
    ELSE LET baudIndex == IF buffer[1] >= G5500_NUM_BAUD_RATES
                          THEN G5500_DEFAULT_BAUD_INDEX ELSE buffer[1]
         IN [ret |-> TRUE, dev |-> [d EXCEPT !.options = <<baudIndex, buffer[2], buffer[3]>>]]

\* YaesuDevice::deserializeOptions
Yaesu_deserializeOptions(d, buffer, len) ==
    IF len < 2 THEN [ret |-> FALSE, dev |-> d]
    ELSE LET baudIndex == IF buffer[1] >= Yaesu_NUM_BAUD_RATES
                          THEN Yaesu_DEFAULT_BAUD_INDEX ELSE buffer[1]
         IN [ret |-> TRUE, dev |-> [d EXCEPT !.options = <<baudIndex, buffer[2] # 0>>]]

\* G5500Device::deserializeOptions
G5500_deserializeOptions(d, buffer, len) ==
    IF len < 3 THEN [ret |-> FALSE, dev |-> d]
    ELSE LET baudIndex == IF buffer[1] >= G5500_NUM_BAUD_RATES
                          THEN G5500_DEFAULT_BAUD_INDEX ELSE buffer[1]
             azSpeed   == IF buffer[2] < MIN_SPEED \/ buffer[2] > MAX_SPEED
                          THEN DEFAULT_AZ_SPEED_INT ELSE buffer[2]
             elSpeed   == IF buffer[3] < MIN_SPEED \/ buffer[3] > MAX_SPEED
                          THEN DEFAULT_EL_SPEED_INT ELSE buffer[3]
         IN [ret |-> TRUE, dev |-> [d EXCEPT !.options = <<baudIndex, azSpeed, elSpeed>>]]

\* NMEAGPSDevice::deserializeOptions
NMEA_deserializeOptions(d, buffer, len) ==
    IF len < 2 THEN [ret |-> FALSE, dev |-> d]
    ELSE LET baudIndex == IF buffer[1] >= NMEA_NUM_BAUD_RATES
                          THEN NMEA_DEFAULT_BAUD_INDEX ELSE buffer[1]
             rateIndex == IF buffer[2] >= NMEA_NUM_UPDATE_RATES
                          THEN NMEA_DEFAULT_RATE_INDEX ELSE buffer[2]
         IN [ret |-> TRUE, dev |-> [d EXCEPT !.options = <<baudIndex, rateIndex>>]]

Device_deserializeOptions(d, buffer, len) ==
    CASE d.kind = "YaesuDevice"   -> Yaesu_deserializeOptions(d, buffer, len)
      [] d.kind = "G5500Device"   -> G5500_deserializeOptions(d, buffer, len)
      [] d.kind = "NMEAGPSDevice" -> NMEA_deserializeOptions(d, buffer, len)

\* DeviceManager::createDeviceWithOptions after its createDevice call gave
\* r: the options are deserialized into the new device; a failure of
\* deserializeOptions is logged and the device is kept
applyStoredOptions(r, optionData, optionLen) ==
    IF r.ret = INVALID_ID THEN r
    ELSE IF optionLen > 0
    THEN [ret |-> r.ret,
          m   |-> [r.m EXCEPT !.devices[r.ret] =
                     Device_deserializeOptions(@, optionData, optionLen).dev]]
    ELSE r

\* DeviceManager::createDeviceWithOptions (optionData is never nullptr here)
createDeviceWithOptions(m, typeName, uartIndex, optionData, optionLen, factoryOk) ==
    applyStoredOptions(createDevice(m, typeName, uartIndex, factoryOk), optionData, optionLen)

\* ConfigStorage::restoreDevice after createDeviceWithOptions gave r
deviceRestored(r) == [ret |-> r.ret # INVALID_ID, m |-> r.m]

\* ConfigStorage::restoreDevice
restoreDevice(m, config, factoryOk) ==
    IF Len(config.typeName) = 0 THEN [ret |-> FALSE, m |-> m]
    ELSE IF ~isUartAvailable(m, config.uartIndex) THEN [ret |-> FALSE, m |-> m]
    ELSE deviceRestored(createDeviceWithOptions(m, config.typeName, config.uartIndex,
                            config.optionData, MAX_OPTION_DATA_LEN, factoryOk))

\* readConfig that accepts any version
readConfig_magicOnly(config) == config.magic = CONFIG_MAGIC

\* ConfigStorage::readConfig
readConfig(config) == config.magic = CONFIG_MAGIC /\ config.version = CONFIG_VERSION

RECURSIVE loadFrom(_, _, _, _, _)
RECURSIVE loadAfter(_, _, _, _, _)

\* The loop of ConfigStorage::load after restoreDevice gave r for entry i
loadAfter(r, config, i, restored, factoryOk) ==
    loadFrom(r.m, config, i + 1, IF r.ret THEN restored + 1 ELSE restored, factoryOk)

\* The loop of ConfigStorage::load from entry i on
loadFrom(m, config, i, restored, factoryOk) ==
    IF ~(i < config.deviceCount /\ i < MAX_DEVICES) THEN [ret |-> restored, m |-> m]
    ELSE IF storedEntry(config, i).valid # 1
    THEN loadFrom(m, config, i + 1, restored, factoryOk)
    ELSE loadAfter(restoreDevice(m, storedEntry(config, i), factoryOk),
                   config, i, restored, factoryOk)

\* ConfigStorage::load: ret is the number of devices restored
load(m, config, factoryOk) ==
    IF ~readConfig(config) THEN [ret |-> 0, m |-> m]
    ELSE loadFrom(m, config, 0, 0, factoryOk)

\* setup() of main.cpp: begin() on every device that is not running
beginAll(m) ==
    LET begun(i) == Device_begin(m.devices[i], m.serialPorts[m.devices[i].uartIndex])
        live(i)  == m.devices[i] # NoDevice /\ ~m.devices[i].running
    IN [m EXCEPT
          !.devices = [i \in 0..(MAX_DEVICES - 1) |->
                          IF live(i) THEN begun(i).dev ELSE m.devices[i]],
          !.serialPorts = [u \in 1..PLATFORM_MAX_UARTS |->
                          IF \E i \in 0..(MAX_DEVICES - 1) : live(i) /\ m.devices[i].uartIndex = u
                          THEN begun(CHOOSE i \in 0..(MAX_DEVICES - 1) :
                                        live(i) /\ m.devices[i].uartIndex = u).port
                          ELSE m.serialPorts[u]]]

\* setup() of main.cpp after ConfigStorage::load gave r: the restored
\* devices are started
startRestored(r) == [ret |-> r.ret, m |-> IF r.ret > 0 THEN beginAll(r.m) ELSE r.m]

\* setup() of main.cpp: the three registerFactory calls, the load of the
\* stored configuration and the start of the restored devices
setup(m, config, factoryOk) ==
    startRestored(
        load(registerFactory(
                 registerFactory(
                     registerFactory(m, "yaesuFactory").m,
                     "g5500Factory").m,
                 "nmeaGpsFactory").m,
             config, factoryOk))

-----------------------------------------------------------------------------
(* ConfigStorage::save and the console commands create, destroy, start, stop *)

\* IEmulatedDevice::getName
getName(d) ==
    CASE d.kind = "YaesuDevice"   -> S_yaesu
      [] d.kind = "G5500Device"   -> S_g5500
      [] d.kind = "NMEAGPSDevice" -> S_nmea_gps

\* serializeOptions: the first three bytes of optionData
serializeOptions(d) ==
    CASE d.kind = "YaesuDevice"   -> <<d.options[1], IF d.options[2] THEN 1 ELSE 0, 0>>
      [] d.kind = "G5500Device"   -> <<d.options[1], d.options[2], d.options[3]>>
      [] d.kind = "NMEAGPSDevice" -> <<d.options[1], d.options[2], 0>>

\* ConfigStorage::serializeDevice
serializeDevice(d) ==
    [valid |-> 1, typeName |-> getName(d), uartIndex |-> d.uartIndex,
     optionData |-> serializeOptions(d)]

\* The loop of ConfigStorage::save from slot i on
RECURSIVE saveFrom(_, _)
saveFrom(m, i) ==
    IF i >= MAX_DEVICES THEN <<>>
    ELSE IF getDevice(m, i) # NoDevice
    THEN <<serializeDevice(getDevice(m, i))>> \o saveFrom(m, i + 1)
    ELSE saveFrom(m, i + 1)

\* ConfigStorage::save: the configuration written to the EEPROM
ConfigStorage_save(m) ==
    [magic |-> CONFIG_MAGIC, version |-> CONFIG_VERSION,
     deviceCount |-> Len(saveFrom(m, 0)), devices |-> saveFrom(m, 0)]

\* The conversion of an int argument to a uint8_t parameter
toUint8(n) == n % 256

\* cmdCreate with argv[2] read as uart: m is the manager, st the stored
\* configuration afterwards
cmdCreate(m, st, typeName, uart, factoryOk) ==
    IF uart < 1 \/ uart > PLATFORM_MAX_UARTS THEN [ret |-> INVALID_ID, m |-> m, st |-> st]
    ELSE LET r == createDevice(m, typeName, uart, factoryOk)
         IN [ret |-> r.ret, m |-> r.m,
             st |-> IF r.ret = INVALID_ID THEN st ELSE ConfigStorage_save(r.m)]

\* cmdDestroy with argv[1] read as id
cmdDestroy(m, st, id) ==
    LET r == destroyDevice(m, toUint8(id))
    IN [ret |-> r.ret, m |-> r.m, st |-> IF r.ret THEN ConfigStorage_save(r.m) ELSE st]

\* cmdStart with argv[1] read as id
cmdStart(m, id) ==
    LET dev == getDevice(m, toUint8(id))
    IN IF dev = NoDevice THEN [ret |-> FALSE, m |-> m]
       ELSE IF dev.running THEN [ret |-> FALSE, m |-> m]
       ELSE LET r == Device_begin(dev, m.serialPorts[dev.uartIndex])
            IN [ret |-> r.ret,
                m   |-> [m EXCEPT !.devices[toUint8(id)] = r.dev,
                                  !.serialPorts[dev.uartIndex] = r.port]]

\* cmdStop with argv[1] read as id
cmdStop(m, id) ==
    LET dev == getDevice(m, toUint8(id))
    IN IF dev = NoDevice THEN [ret |-> FALSE, m |-> m]
       ELSE IF ~dev.running THEN [ret |-> FALSE, m |-> m]
       ELSE LET r == Device_end(dev, m.serialPorts[dev.uartIndex])
            IN [ret |-> TRUE,
                m   |-> [m EXCEPT !.devices[toUint8(id)] = r.dev,
                                  !.serialPorts[dev.uartIndex] = r.port]]

-----------------------------------------------------------------------------
(* One G5500Device with its GS232Parser, followed through update() calls *)

\* NMEAGPSDevice::NMEAGPSDevice on UART 2: stopped, state reset
NewGPS ==
    [dev |-> NewDevice("NMEAGPSDevice", 2), tx |-> <<>>, op |-> "new", ops |-> 0, ticks |-> 0]

\* The test of NMEAGPSDevice::update: running and a whole interval elapsed
outputDue(d, t) == d.running /\ t - d.state.lastOutputMs >= getUpdateIntervalMs(d)

\* The cycles _generator.outputAll() can write once the state is d1.state
writeCycle(g, d1) ==
    {[g EXCEPT !.dev = d1, !.tx = cycle, !.op = "update"] : cycle \in outputAll(d1.state)}

\* The same with the cycle written before the clock is advanced
NMEAGPSDevice_update_outputFirst(g, t) ==
    IF ~outputDue(g.dev, t) THEN {[g EXCEPT !.tx = <<>>, !.op = "update"]}
    ELSE {[g EXCEPT !.dev = NMEA_update(g.dev, <<>>, t), !.tx = cycle, !.op = "update"] :
             cycle \in outputAll(g.dev.state)}

\* NMEAGPSDevice::update at time t: the device and what its port received
NMEAGPSDevice_update(g, t) ==
    IF ~outputDue(g.dev, t) THEN {[g EXCEPT !.tx = <<>>, !.op = "update"]}
    ELSE writeCycle(g, NMEA_update(g.dev, <<>>, t))

\* NMEAGPSDevice::setPosition
NMEAGPSDevice_setPosition(d, lat, lon, alt) ==
    [d EXCEPT !.state = setPosition(@, lat, lon, alt)]

\* G5500Device::G5500Device on UART 1: stopped, state reset, nothing buffered
NewRot ==
    [dev |-> NewDevice("G5500Device", 1), buffer |-> <<>>, tx |-> <<>>,
     base |-> G5500State_reset, baseAt |-> 0, fresh |-> FALSE, ops |-> 0, ticks |-> 0]

\* G5500Device::update after _parser.update() gave p: simulateRotation()
\* runs; received tells whether bytes were waiting on the port
rotateAfterParse(r, p, received, t) ==
    [r EXCEPT !.dev = simulateRotation([r.dev EXCEPT !.state = p.state,
                                                     !.bufLen = Len(p.buffer)], t),
              !.buffer = p.buffer,
              !.tx = p.tx,
              !.base = IF received THEN p.state ELSE @,
              !.baseAt = IF received THEN t ELSE @,
              !.fresh = TRUE,
              !.ops = IF received THEN @ + 1 ELSE @]

\* update() that integrates the elapsed time before it reads the commands
G5500Device_update_integrateFirst(r, bytes, t) ==
    IF ~r.dev.running THEN r
    ELSE LET d1 == simulateRotation(r.dev, t)
             p  == GS232Parser_update([state |-> d1.state, buffer |-> r.buffer,
                                       tx |-> <<>>], bytes)
         IN [r EXCEPT !.dev = [d1 EXCEPT !.state = p.state, !.bufLen = Len(p.buffer)],
                      !.buffer = p.buffer,
                      !.tx = p.tx,
                      !.base = IF Len(bytes) > 0 THEN p.state ELSE @,
                      !.baseAt = IF Len(bytes) > 0 THEN t ELSE @,
                      !.fresh = TRUE,
                      !.ops = IF Len(bytes) > 0 THEN @ + 1 ELSE @]

\* G5500Device::update at time t (millis()) with bytes waiting on the port
G5500Device_update(r, bytes, t) ==
    IF ~r.dev.running THEN r
    ELSE rotateAfterParse(r, GS232Parser_update([state |-> r.dev.state,
                                                 buffer |-> r.buffer,
                                                 tx |-> <<>>], bytes),
                          Len(bytes) > 0, t)

-----------------------------------------------------------------------------
(* The console inside loop().  The bytes of the console stream are "x" (a  *)
(* printable character), "\r", "\n", "BS" (8), "DEL" (127) and "ESC" (27). *)

COMMAND_BUFFER_SIZE == 128

\* Console::Console: nothing typed; loop() is about to call console->update()
NewCon == [pc |-> "console", rx |-> <<>>, cmdLen |-> 0, arrived |-> 0]

\* The while (_stream.available()) loop of Console::update from the first
\* unread byte of rx, with commands the console does not know (processCommand
\* prints and returns).  It ends when no byte is available (waiting FALSE) or
\* inside the escape branch with fewer than 2 bytes available (waiting TRUE).
RECURSIVE Console_run(_, _)
Console_run(cmdLen, rx) ==
    IF Len(rx) = 0 THEN [cmdLen |-> cmdLen, rx |-> rx, waiting |-> FALSE]
    ELSE IF Head(rx) \in {"BS", "DEL"}
    THEN Console_run(IF cmdLen > 0 THEN cmdLen - 1 ELSE cmdLen, Tail(rx))
    ELSE IF Head(rx) \in {"\r", "\n"}
    THEN Console_run(0, Tail(rx))
    ELSE IF Head(rx) = "ESC"
    THEN IF Len(rx) - 1 < 2
         THEN [cmdLen |-> cmdLen, rx |-> Tail(rx), waiting |-> TRUE]
         ELSE Console_run(cmdLen, SubSeq(rx, 4, Len(rx)))
    ELSE Console_run(IF cmdLen < COMMAND_BUFFER_SIZE - 1 THEN cmdLen + 1 ELSE cmdLen,
                     Tail(rx))

\* Where loop() is once Console_run has ended with r
afterRun(c, r) ==
    [c EXCEPT !.cmdLen = r.cmdLen, !.rx = r.rx,
              !.pc = IF r.waiting THEN "escape" ELSE "devices"]

\* Console::update up to its return or to the wait of the escape branch
Console_update(c) == afterRun(c, Console_run(c.cmdLen, c.rx))

\* The escape branch once 2 bytes are available: both are read and the loop
\* of Console::update goes on
Console_escapeRead(c) == afterRun(c, Console_run(c.cmdLen, SubSeq(c.rx, 3, Len(c.rx))))

-----------------------------------------------------------------------------
(* The inputs the operations are called with *)

\* Type names passed to createDevice: the registered names, the category
\* aliases in several spellings, the default radio type and an unknown name
TypeNames == {S_yaesu, S_YAESU, S_g5500, S_nmea_gps, S_ft991a,
              S_radio, S_Radio, S_rotator, S_ROTATOR, S_gps, S_GPS, S_bogus}

\* The type names the CreateDevice step is taken with
CreateNames == {S_yaesu, S_ROTATOR, S_gps, S_radio}

\* UART indices passed to createDevice: 0, the declared range, one past it
UartInputs == 0..(PLATFORM_MAX_UARTS + 1)

\* Device ids passed to the operations: the first two slots, the last slot
\* and one past the last
IdInputs == {0, 1, MAX_DEVICES - 1, MAX_DEVICES}

\* Option names and values passed to setOption
OptionNames == {S_baud_rate, S_BAUD_RATE, S_bogus}
OptionValues == {S_4800, S_9600, S_abc}

\* Commands arriving on a UART between two updateAll calls
F_FA == <<"F","A","0","0","7","0","0","0","0","0","0">>
F_R == <<"R">>
RxFrames == {<<>>, F_FA, F_R}

\* The longest list of stored device entries setup() is run with
MaxStoredDevices == 2

\* StoredDeviceConfig entries: typeName is what serializeDevice stored
\* (getName()), optionData what serializeOptions stored or damaged bytes
StoredEntries ==
    { [valid |-> 1, typeName |-> S_yaesu,    uartIndex |-> 1, optionData |-> <<0, 1, 0>>],
      [valid |-> 1, typeName |-> S_g5500,    uartIndex |-> 2, optionData |-> <<1, 5, 7>>],
      [valid |-> 1, typeName |-> S_nmea_gps, uartIndex |-> 1, optionData |-> <<9, 9, 0>>],
      [valid |-> 1, typeName |-> S_bogus,    uartIndex |-> 2, optionData |-> <<0, 0, 0>>],
      [valid |-> 0, typeName |-> S_yaesu,    uartIndex |-> 1, optionData |-> <<0, 1, 0>>],
      [valid |-> 1, typeName |-> S_yaesu,    uartIndex |-> 3, optionData |-> <<1, 0, 0>>],
      [valid |-> 1, typeName |-> S_empty,    uartIndex |-> 1, optionData |-> <<0, 0, 0>>],
      [valid |-> 1, typeName |-> S_g5500,    uartIndex |-> 0, optionData |-> <<0, 11, 0>>] }

\* The lists of at most n stored entries
RECURSIVE StoredListsUpTo(_)
StoredListsUpTo(n) ==
    IF n = 0 THEN {<<>>}
    ELSE LET shorter == StoredListsUpTo(n - 1)
         IN shorter \cup {Append(l, e) : l \in shorter, e \in StoredEntries}

StoredLists == StoredListsUpTo(MaxStoredDevices)

\* What the EEPROM / flash page holds when setup() runs: a configuration as
\* ConfigStorage::save writes it, the same with a deviceCount of 1, with a
\* foreign magic number, and with a later version
StoredHeaders ==
    {<<CONFIG_MAGIC, CONFIG_VERSION, TRUE>>, <<CONFIG_MAGIC, CONFIG_VERSION, FALSE>>,
     <<0, CONFIG_VERSION, TRUE>>, <<CONFIG_MAGIC, CONFIG_VERSION + 1, TRUE>>}

StoredConfigs ==
    { [magic |-> h[1], version |-> h[2],
       deviceCount |-> IF h[3] THEN Len(l) ELSE 1, devices |-> l] :
      h \in StoredHeaders, l \in StoredLists }

\* Bursts of bytes the radio's UART receives between two update() calls
\* write VFO-B, then read it back
K_setBRead == <<"F","B","4","7","0","0","0","0","0","0","0",";","F","B",";">>
\* a frequency written with 5 digits
K_short == <<"F","A","3","0","0","0","0",";">>
\* select VFO-B
K_vfoB == <<"V","S","1",";">>
\* select VFO-A
K_vfoA == <<"V","S","0",";">>
\* mode 14 (C4FM) for the current VFO
K_mode == <<"M","D","0",">",";">>
\* mode 2 for the current VFO, then the README's mode read
K_modeRead0 == <<"M","D","0","2",";","M","D","0",";">>
\* PTT, power, RIT, XIT, gains and squelch written
K_miscOn == <<"T","X","1",";","P","S","0",";","R","I","1",";","X","T","1",";","A","G","0","1","0","0",";","R","G","0","1","0","0",";","S","Q","0","2","0","0",";">>
\* the same back to the reset values
K_miscOff == <<"R","X",";","P","S","1",";","R","I","0",";","X","T","0",";","A","G","0","1","2","8",";","R","G","0","2","5","5",";","S","Q","0","0","5","0",";">>
\* RIT offset 40000
K_ritOver == <<"R","U","4","0","0","0","0",";">>
\* RIT one step down
K_ritDown == <<"R","D",";">>
\* RIT offset 0
K_ritZero == <<"R","U","0","0","0","0",";">>
\* three reads in one burst
K_reads == <<"F","B",";","M","D",";","I","F",";">>
\* an unknown command, a one-letter frame, an empty frame, a frequency below
\* FREQ_MIN, then the identification read
K_errors == <<"Z","Z",";","F",";",";","F","A","0","0","0","0","2","9","9","9","9",";","I","D",";">>
\* the first half of a frame, in lower case
K_partial == <<"f","a","0","0","0","0">>
\* the second half of a frame, then CR LF
K_rest == <<"3","0","0","0","0",";","\r","\n">>
\* 64 bytes without a terminator, then a frequency read
K_overflow == [i \in 1..CAT_BUFFER_SIZE |-> "X"] \o <<"F","A",";">>

CatChunks ==
    {K_setBRead, K_short, K_vfoB, K_vfoA, K_mode,
     K_modeRead0, K_miscOn, K_miscOff, K_ritOver, K_ritDown,
     K_ritZero, K_reads, K_errors, K_partial, K_rest,
     K_overflow}

\* The most bytes an unterminated burst may leave in the parser's buffer
MaxBuffered == 6

\* The most 10 Hz steps the RIT offset is moved away from 0
MaxRitSteps == 1

\* The meters and values the console's meter commands set
MeterInputs == {<<"SMETER", 200>>, <<"SMETER", 0>>}

\* Bursts of bytes waiting on the rotator's port when update() runs
\* a goto to azimuth 1
G_goto1 == <<"M","0","0","1","\r">>
\* a goto on both axes, in lower case
G_gotoBoth == <<"w","0","0","2"," ","0","0","1","\r">>
\* manual rotation of both axes
G_cwUp == <<"R","\r","U","\r">>
G_ccwDown == <<"L","\r","D","\r">>
\* stop of the azimuth axis
G_stopAz == <<"A","\n">>
\* stop of the elevation axis, of both axes, then the two reads
G_stop == <<"E","\r","S","\r","C","2","\r","B","\r">>
\* commands the parser drops
G_bad == <<"M","\r","M","4","5","1","\r","W","1","8","0"," ","1","8","1","\r","Q","\r">>
\* a command that arrives in two bursts
G_partial == <<"m","0","0">>
G_rest == <<"1","\r","\n">>

RotChunks ==
    {<<>>, G_goto1, G_gotoBoth, G_cwUp, G_ccwDown, G_stopAz,
     G_stop, G_bad, G_partial, G_rest}

\* The longest run of bytes left in the rotator's buffer between updates
MaxRotBuffered == 3

\* The setOption calls made on the rotator: a speed in and one out of 1..10
RotOptionInputs == {<<S_az_speed, S_10>>, <<S_az_speed, S_0>>}

\* The console calls and bursts of bytes the rotator gets at most
MaxRotOps == 2

\* millis() advances between two update() calls by one of these, MaxRotTicks
\* times at most
RotTickMs == {5, 495, 100000}
MaxRotTicks == 3

\* Altitudes the gps command passes on, each an exact float: none given
\* (0.0), -1e8 and 2^47
A_none == [neg |-> FALSE, whole |-> <<"0">>, tenth |-> 0]
A_low  == [neg |-> TRUE, whole |-> <<"1","0","0","0","0","0","0","0","0">>, tenth |-> 0]
A_high == [neg |-> FALSE,
           whole |-> <<"1","4","0","7","3","7","4","8","8","3","5","5","3","2","8">>,
           tenth |-> 0]

\* gps <id> <lat> <lon> [alt] with a latitude in -90..90 and a longitude in
\* -180..180, as cmdGps lets through
GpsPositions ==
    {<<0, 0, A_none>>, <<-90000000, 180000000, A_low>>, <<37774900, -122419400, A_high>>}

GpsOptionInputs == {<<S_update_rate, S_5>>, <<S_update_rate, S_10>>}

\* Console calls per GPS device
MaxGpsOps == 2

\* The time between two calls of update(), in ms
GpsTickMs == {100, 1000}

MaxGpsTicks == 3

\* Clocks of a GPS that has been running for a while: the last seconds before
\* each rollover
RolloverClocks ==
    {[NMEAGPSState_reset EXCEPT !.second = c[1], !.minute = c[2], !.hour = c[3],
                                !.day = c[4], !.month = c[5]] :
        c \in {58, 59} \X {0, 59} \X {12, 23} \X {1, 28} \X {1, 12}}

\* Satellite tables with every one of the MAX_SATELLITES entries filled: the
\* eight of initSatellites and four more
SatTables ==
    {[i \in 1..12 |-> IF i <= 8 THEN satData[i] ELSE <<18 + i, 5 * i, 30 * i - 100, 30 + i>>],
     [i \in 1..12 |-> <<i, 90 - 7 * i, 359 - 30 * (i - 1), 20 + 2 * i>>]}

\* GPS states with N = 0..MAX_SATELLITES satellites in view
SatStates ==
    {[NMEAGPSState_reset EXCEPT !.numSatsInView = n,
                                !.sats = [i \in 1..12 |-> IF i <= n THEN t[i] ELSE <<0, 0, 0, 0>>]] :
        n \in 0..12, t \in SatTables}

\* The bytes a terminal sends to the console
ConsoleBytes == {"x", "\r", "BS", "ESC"}

\* Bytes arriving on the console stream in all
MaxConsoleBytes == 3

\* The ms of delay(1) in the escape branch that the clock follows
MaxEscapeMs == 2

\* The EEPROM contents of a board with a radio on UART 1 and a rotator on UART 2
LoopConfig ==
    [magic |-> CONFIG_MAGIC, version |-> CONFIG_VERSION, deviceCount |-> 2,
     devices |-> <<[valid |-> 1, typeName |-> S_yaesu, uartIndex |-> 1,
                    optionData |-> <<0, 1, 0>>],
                   [valid |-> 1, typeName |-> S_g5500, uartIndex |-> 2,
                    optionData |-> <<1, 5, 7>>]>>]

\* The device types the option calls are made on
OptTypes == {S_yaesu, S_g5500, S_nmea_gps}

\* Option names and value strings for setOption: every option of the three
\* classes, values in and out of each candidate set and range, malformed ones
OptNames == {S_baud_rate, S_echo, S_az_speed, S_el_speed, S_update_rate, S_bogus}
OptValues ==
    {S_1200, S_38400, S_1, S_10, S_0, S_11, S_sp5, S_5x, S_neg1, S_huge,
     S_TRUE, S_false, S_empty, S_abc}

\* Bytes of a stored option block: in range, just past each table and range,
\* and the bytes of an erased or damaged page
OptBytes == {0, 3, 4, 10, 11, 255}

\* The bytes the parsers are fed one at a time: a letter, the terminators
\* and, for the radio, a control character
CatBytes == {"x", ";", "\r"}
RotBytes == {"x", "\r", "\n"}

\* The numbers typed as <id>: in 0..MAX_DEVICES-1, just outside, negative,
\* and around the 8-bit limit
TypedIds == {0, 1, MAX_DEVICES - 1, MAX_DEVICES, -1, -256, 255, 256, 257}

-----------------------------------------------------------------------------
(* The state machine *)

\* getDevice(deviceId) is a device and isRunning() holds for it
wasRunning(m, deviceId) ==
    getDevice(m, deviceId) # NoDevice /\ getDevice(m, deviceId).running

SetMgr(m) ==
    /\ factories' = m.factories
    /\ devices' = m.devices
    /\ deviceFactories' = m.deviceFactories
    /\ uartAllocation' = m.uartAllocation
    /\ serialPorts' = m.serialPorts

Init ==
    /\ platform \in Platforms
    /\ factories = NewMgr.factories
    /\ devices = NewMgr.devices
    /\ deviceFactories = NewMgr.deviceFactories
    /\ uartAllocation = NewMgr.uartAllocation
    /\ serialPorts = NewMgr.serialPorts
    /\ now = 0
    /\ lastOp = [op |-> "init", arg |-> 0, id |-> INVALID_ID, ok |-> TRUE, was |-> FALSE]
    /\ stored = ClearedConfig
    /\ cat = NewCAT
    /\ rot = NewRot
    /\ gps = NewGPS
    /\ con = NewCon

\* deviceManager.registerFactory(factory); the factories are offered in the
\* order of FactoryList, an earlier one may be offered again
RegisterFactory ==
    \E f \in FactoryPool \cup {NULL} :
        /\ f # NULL => FactoryIndex(f) <= Len(factories) + 1
        /\ LET r == registerFactory(Mgr, f)
           IN /\ SetMgr(r.m)
              /\ lastOp' = [op |-> "registerFactory",
                            arg |-> IF f = NULL THEN 0 ELSE FactoryIndex(f),
                            id |-> INVALID_ID, ok |-> r.ret, was |-> FALSE]
        /\ UNCHANGED <<platform, now, stored, cat, rot, gps, con>>

\* deviceManager.createDevice(typeName, uartIndex)
CreateDevice ==
    \E typeName \in CreateNames, uartIndex \in UartInputs, factoryOk \in BOOLEAN :
        LET r == createDevice(Mgr, typeName, uartIndex, factoryOk)
        IN /\ SetMgr(r.m)
           /\ lastOp' = [op |-> "createDevice", arg |-> uartIndex,
                         id |-> r.ret, ok |-> r.ret # INVALID_ID, was |-> FALSE]
           /\ UNCHANGED <<platform, now, stored, cat, rot, gps, con>>

\* deviceManager.destroyDevice(deviceId)
DestroyDevice ==
    \E deviceId \in IdInputs :
        LET r == destroyDevice(Mgr, deviceId)
        IN /\ SetMgr(r.m)
           /\ lastOp' = [op |-> "destroyDevice", arg |-> deviceId,
                         id |-> deviceId, ok |-> r.ret,
                         was |-> wasRunning(Mgr, deviceId)]
           /\ UNCHANGED <<platform, now, stored, cat, rot, gps, con>>

\* getDevice(deviceId)->begin()
Begin ==
    \E deviceId \in IdInputs :
        /\ getDevice(Mgr, deviceId) # NoDevice
        /\ LET d == getDevice(Mgr, deviceId)
               r == Device_begin(d, serialPorts[d.uartIndex])
           IN /\ devices' = [devices EXCEPT ![deviceId] = r.dev]
              /\ serialPorts' = [serialPorts EXCEPT ![d.uartIndex] = r.port]
              /\ lastOp' = [op |-> "begin", arg |-> deviceId, id |-> deviceId,
                            ok |-> r.ret, was |-> d.running]
        /\ UNCHANGED <<platform, factories, deviceFactories, uartAllocation, now, stored, cat, rot, gps, con>>

\* getDevice(deviceId)->end()
End ==
    \E deviceId \in IdInputs :
        /\ getDevice(Mgr, deviceId) # NoDevice
        /\ LET d == getDevice(Mgr, deviceId)
               r == Device_end(d, serialPorts[d.uartIndex])
           IN /\ devices' = [devices EXCEPT ![deviceId] = r.dev]
              /\ serialPorts' = [serialPorts EXCEPT ![d.uartIndex] = r.port]
              /\ lastOp' = [op |-> "end", arg |-> deviceId, id |-> deviceId,
                            ok |-> TRUE, was |-> d.running]
        /\ UNCHANGED <<platform, factories, deviceFactories, uartAllocation, now, stored, cat, rot, gps, con>>

\* getDevice(deviceId)->setOption(name, value)
SetOption ==
    \E deviceId \in IdInputs, name \in OptionNames, value \in OptionValues :
        /\ getDevice(Mgr, deviceId) # NoDevice
        /\ LET d == getDevice(Mgr, deviceId)
               r == Device_setOption(d, serialPorts[d.uartIndex], name, value)
           IN /\ devices' = [devices EXCEPT ![deviceId] = r.dev]
              /\ serialPorts' = [serialPorts EXCEPT ![d.uartIndex] = r.port]
              /\ lastOp' = [op |-> "setOption", arg |-> deviceId, id |-> deviceId,
                            ok |-> r.ret, was |-> d.running]
        /\ UNCHANGED <<platform, factories, deviceFactories, uartAllocation, now, stored, cat, rot, gps, con>>

\* deviceManager.updateAll() in loop(); since the last call one command
\* arrived on one UART, or nothing at all
UpdateAll ==
    \E u \in 1..PLATFORM_MAX_UARTS, frame \in RxFrames :
        /\ SetMgr(updateAll(Mgr, [v \in 1..PLATFORM_MAX_UARTS |->
                                    IF v = u THEN frame ELSE <<>>], now))
        /\ lastOp' = [op |-> "updateAll", arg |-> 0, id |-> INVALID_ID, ok |-> TRUE,
                      was |-> FALSE]
        /\ UNCHANGED <<platform, now, stored, cat, rot, gps, con>>

\* Time passes: millis() advances by TickMs
Tick ==
    /\ now < MaxTicks * TickMs
    /\ now' = now + TickMs
    /\ lastOp' = [op |-> "tick", arg |-> 0, id |-> INVALID_ID, ok |-> TRUE, was |-> FALSE]
    /\ UNCHANGED <<platform, factories, devices, deviceFactories, uartAllocation,
                   serialPorts, stored, cat, rot, gps, con>>

\* The manager's operations and the start and stop of devices
Next ==
    \/ RegisterFactory
    \/ CreateDevice
    \/ DestroyDevice
    \/ Begin
    \/ End

Spec == Init /\ [][Next]_vars

\* The state setup() of main.cpp leaves with no stored configuration: the
\* three factories registered, no device.  The board is the Nucleo G070RB.
InitLife ==
    /\ platform = "Nucleo-G070RB"
    /\ factories = StartupFactories
    /\ devices = NewMgr.devices
    /\ deviceFactories = NewMgr.deviceFactories
    /\ uartAllocation = NewMgr.uartAllocation
    /\ serialPorts = NewMgr.serialPorts
    /\ now = 0
    /\ lastOp = [op |-> "init", arg |-> 0, id |-> INVALID_ID, ok |-> TRUE, was |-> FALSE]
    /\ stored = ClearedConfig
    /\ cat = NewCAT
    /\ rot = NewRot
    /\ gps = NewGPS
    /\ con = NewCon

\* The console commands and loop() after setup()
NextLife ==
    \/ CreateDevice
    \/ DestroyDevice
    \/ Begin
    \/ End
    \/ SetOption
    \/ UpdateAll
    \/ Tick

SpecLife == InitLife /\ [][NextLife]_vars

\* setup() of main.cpp, run once after power-up
Setup ==
    \E factoryOk \in BOOLEAN :
        /\ lastOp.op = "init"
        /\ \E r \in {setup(Mgr, stored, factoryOk)} :
              /\ SetMgr(r.m)
              /\ lastOp' = [op |-> "setup", arg |-> r.ret, id |-> INVALID_ID,
                            ok |-> factoryOk, was |-> FALSE]
        /\ UNCHANGED <<platform, now, stored, cat, rot, gps, con>>

\* The console's destroy command, once setup() has run
DestroyRestored == lastOp.op # "init" /\ DestroyDevice

\* Power-up with some stored configuration in the EEPROM / flash page
InitBoot ==
    /\ platform \in Platforms
    /\ factories = NewMgr.factories
    /\ devices = NewMgr.devices
    /\ deviceFactories = NewMgr.deviceFactories
    /\ uartAllocation = NewMgr.uartAllocation
    /\ serialPorts = NewMgr.serialPorts
    /\ now = 0
    /\ lastOp = [op |-> "init", arg |-> 0, id |-> INVALID_ID, ok |-> TRUE, was |-> FALSE]
    /\ stored \in StoredConfigs
    /\ cat = NewCAT
    /\ rot = NewRot
    /\ gps = NewGPS
    /\ con = NewCon

NextBoot ==
    \/ Setup
    \/ DestroyRestored

SpecBoot == InitBoot /\ [][NextBoot]_vars

\* CATParser::update with a burst of bytes waiting on the port
CatUpdate ==
    \E bytes \in CatChunks :
        /\ bytes[Len(bytes)] \in {CAT_TERMINATOR} \cup ControlChars
              \/ Len(cat.buffer) + Len(bytes) <= MaxBuffered
        /\ bytes = K_ritDown =>
              \/ cat.state.ritOffset > 0 - 10 * MaxRitSteps
              \/ cat.state.ritOffset = -9999
        /\ cat' = CATParser_update(cat, bytes)
        /\ UNCHANGED <<platform, factories, devices, deviceFactories, uartAllocation,
                       serialPorts, now, lastOp, stored, rot, gps, con>>

\* YaesuDevice::setMeter from the console
SetMeter ==
    \E input \in MeterInputs :
        /\ cat' = [cat EXCEPT !.state = setMeter(@, input[1], input[2]).st]
        /\ UNCHANGED <<platform, factories, devices, deviceFactories, uartAllocation,
                       serialPorts, now, lastOp, stored, rot, gps, con>>

\* A radio's parser on the Nucleo G070RB (32-bit int), state just reset
InitCAT ==
    /\ platform = "Nucleo-G070RB"
    /\ factories = StartupFactories
    /\ devices = NewMgr.devices
    /\ deviceFactories = NewMgr.deviceFactories
    /\ uartAllocation = NewMgr.uartAllocation
    /\ serialPorts = NewMgr.serialPorts
    /\ now = 0
    /\ lastOp = [op |-> "init", arg |-> 0, id |-> INVALID_ID, ok |-> TRUE, was |-> FALSE]
    /\ stored = ClearedConfig
    /\ cat = NewCAT
    /\ rot = NewRot
    /\ gps = NewGPS
    /\ con = NewCon

NextCAT ==
    \/ CatUpdate
    \/ SetMeter

SpecCAT == InitCAT /\ [][NextCAT]_vars

\* G5500Device::end and begin from the console's stop and start commands
RotRestart ==
    /\ rot.ops < MaxRotOps
    /\ \E e \in {G5500_end(rot.dev, NewPort)} :
          \E r \in {IF rot.dev.running THEN e ELSE G5500_begin(rot.dev, NewPort)} :
             rot' = [rot EXCEPT !.dev = r.dev, !.tx = <<>>,
                                !.buffer = IF rot.dev.running THEN @ ELSE <<>>,
                                !.base = r.dev.state, !.baseAt = now,
                                !.ops = @ + 1]
    /\ UNCHANGED <<platform, factories, devices, deviceFactories, uartAllocation,
                   serialPorts, now, lastOp, stored, cat, gps, con>>

\* G5500Device::setOption from the console's set command
RotSetOption ==
    /\ rot.ops < MaxRotOps
    /\ \E input \in RotOptionInputs :
          \E r \in {G5500_setOption(rot.dev, NewPort, input[1], input[2])} :
             rot' = [rot EXCEPT !.dev = r.dev, !.tx = <<>>,
                                !.base = r.dev.state, !.baseAt = now,
                                !.ops = @ + 1]
    /\ UNCHANGED <<platform, factories, devices, deviceFactories, uartAllocation,
                   serialPorts, now, lastOp, stored, cat, gps, con>>

\* G5500Device::update from loop(), with a burst of bytes waiting on the port
RotUpdate ==
    /\ \E bytes \in RotChunks :
          /\ Len(bytes) > 0 => rot.ops < MaxRotOps
          /\ IF Len(bytes) > 0 /\ bytes[Len(bytes)] \notin ControlChars
             THEN Len(rot.buffer) + Len(bytes) <= MaxRotBuffered
             ELSE TRUE
          /\ rot' = G5500Device_update(rot, bytes, now)
    /\ UNCHANGED <<platform, factories, devices, deviceFactories, uartAllocation,
                   serialPorts, now, lastOp, stored, cat, gps, con>>

\* Time passes between two calls
RotTick ==
    /\ rot.ticks < MaxRotTicks
    /\ \E d \in RotTickMs : now' = now + d
    /\ rot' = [rot EXCEPT !.ticks = @ + 1, !.fresh = FALSE]
    /\ UNCHANGED <<platform, factories, devices, deviceFactories, uartAllocation,
                   serialPorts, lastOp, stored, cat, gps, con>>

\* A rotator on the Nucleo G070RB that begin() has just started
InitRot ==
    /\ platform = "Nucleo-G070RB"
    /\ factories = StartupFactories
    /\ devices = NewMgr.devices
    /\ deviceFactories = NewMgr.deviceFactories
    /\ uartAllocation = NewMgr.uartAllocation
    /\ serialPorts = NewMgr.serialPorts
    /\ now = 0
    /\ lastOp = [op |-> "init", arg |-> 0, id |-> INVALID_ID, ok |-> TRUE, was |-> FALSE]
    /\ stored = ClearedConfig
    /\ cat = NewCAT
    /\ rot = [NewRot EXCEPT !.dev = G5500_begin(@, NewPort).dev]
    /\ gps = NewGPS
    /\ con = NewCon

NextRot ==
    \/ RotRestart
    \/ RotSetOption
    \/ RotUpdate
    \/ RotTick

SpecRot == InitRot /\ [][NextRot]_vars

-----------------------------------------------------------------------------
(* One NMEAGPSDevice under console calls, update() calls and time steps *)

\* stop / start from the console: NMEAGPSDevice::end when running, begin otherwise
GpsRestart ==
    /\ gps.ops < MaxGpsOps
    /\ \E e \in {NMEA_end(gps.dev, NewPort)} :
          \E r \in {IF gps.dev.running THEN e ELSE NMEA_begin(gps.dev, NewPort)} :
             gps' = [gps EXCEPT !.dev = r.dev, !.tx = <<>>, !.op = "restart", !.ops = @ + 1]
    /\ UNCHANGED <<platform, factories, devices, deviceFactories, uartAllocation,
                   serialPorts, now, lastOp, stored, cat, rot, con>>

\* NMEAGPSDevice::setOption from the console's set command
GpsSetOption ==
    /\ gps.ops < MaxGpsOps
    /\ \E input \in GpsOptionInputs :
          \E r \in {NMEA_setOption(gps.dev, NewPort, input[1], input[2])} :
             gps' = [gps EXCEPT !.dev = r.dev, !.tx = <<>>, !.op = "setOption", !.ops = @ + 1]
    /\ UNCHANGED <<platform, factories, devices, deviceFactories, uartAllocation,
                   serialPorts, now, lastOp, stored, cat, rot, con>>

\* cmdGps: NMEAGPSDevice::setPosition
GpsSetPosition ==
    /\ gps.ops < MaxGpsOps
    /\ \E p \in GpsPositions :
          gps' = [gps EXCEPT !.dev = NMEAGPSDevice_setPosition(@, p[1], p[2], p[3]),
                             !.tx = <<>>, !.op = "setPosition", !.ops = @ + 1]
    /\ UNCHANGED <<platform, factories, devices, deviceFactories, uartAllocation,
                   serialPorts, now, lastOp, stored, cat, rot, con>>

\* NMEAGPSDevice::update from loop()
GpsUpdate ==
    /\ \E g \in NMEAGPSDevice_update(gps, now) : gps' = g
    /\ UNCHANGED <<platform, factories, devices, deviceFactories, uartAllocation,
                   serialPorts, now, lastOp, stored, cat, rot, con>>

\* Time passes between two calls
GpsTick ==
    /\ gps.ticks < MaxGpsTicks
    /\ \E d \in GpsTickMs : now' = now + d
    /\ gps' = [gps EXCEPT !.tx = <<>>, !.op = "tick", !.ticks = @ + 1]
    /\ UNCHANGED <<platform, factories, devices, deviceFactories, uartAllocation,
                   serialPorts, lastOp, stored, cat, rot, con>>

\* A GPS on the Nucleo G070RB that begin() has just started
InitGPS ==
    /\ platform = "Nucleo-G070RB"
    /\ factories = StartupFactories
    /\ devices = NewMgr.devices
    /\ deviceFactories = NewMgr.deviceFactories
    /\ uartAllocation = NewMgr.uartAllocation
    /\ serialPorts = NewMgr.serialPorts
    /\ now = 0
    /\ lastOp = [op |-> "init", arg |-> 0, id |-> INVALID_ID, ok |-> TRUE, was |-> FALSE]
    /\ stored = ClearedConfig
    /\ cat = NewCAT
    /\ rot = NewRot
    /\ gps = [NewGPS EXCEPT !.dev = NMEA_begin(@, NewPort).dev]
    /\ con = NewCon

NextGPS ==
    \/ GpsRestart
    \/ GpsSetOption
    \/ GpsSetPosition
    \/ GpsUpdate
    \/ GpsTick

SpecGPS == InitGPS /\ [][NextGPS]_vars

\* A GPS that has been running up to the last seconds before a rollover
InitClock ==
    /\ platform = "Nucleo-G070RB"
    /\ factories = StartupFactories
    /\ devices = NewMgr.devices
    /\ deviceFactories = NewMgr.deviceFactories
    /\ uartAllocation = NewMgr.uartAllocation
    /\ serialPorts = NewMgr.serialPorts
    /\ now = 0
    /\ lastOp = [op |-> "init", arg |-> 0, id |-> INVALID_ID, ok |-> TRUE, was |-> FALSE]
    /\ stored = ClearedConfig
    /\ cat = NewCAT
    /\ rot = NewRot
    /\ \E st \in RolloverClocks :
          gps = [NewGPS EXCEPT !.dev = [NMEA_begin(@, NewPort).dev EXCEPT !.state = st]]
    /\ con = NewCon

NextClock ==
    \/ GpsUpdate
    \/ GpsTick

SpecClock == InitClock /\ [][NextClock]_vars

\* A running GPS with N satellites in view
InitGSV ==
    /\ platform = "Nucleo-G070RB"
    /\ factories = StartupFactories
    /\ devices = NewMgr.devices
    /\ deviceFactories = NewMgr.deviceFactories
    /\ uartAllocation = NewMgr.uartAllocation
    /\ serialPorts = NewMgr.serialPorts
    /\ now = 0
    /\ lastOp = [op |-> "init", arg |-> 0, id |-> INVALID_ID, ok |-> TRUE, was |-> FALSE]
    /\ stored = ClearedConfig
    /\ cat = NewCAT
    /\ rot = NewRot
    /\ \E st \in SatStates :
          gps = [NewGPS EXCEPT !.dev = [NMEA_begin(@, NewPort).dev EXCEPT !.state = st]]
    /\ con = NewCon

NextGSV ==
    \/ GpsUpdate
    \/ GpsTick

SpecGSV == InitGSV /\ [][NextGSV]_vars

-----------------------------------------------------------------------------
(* loop(): console->update(), then deviceManager.updateAll() *)

\* A byte arrives on the console stream, whatever loop() is doing
ConsoleArrive ==
    /\ con.arrived < MaxConsoleBytes
    /\ \E b \in ConsoleBytes :
          con' = [con EXCEPT !.rx = Append(@, b), !.arrived = @ + 1]
    /\ UNCHANGED <<platform, factories, devices, deviceFactories, uartAllocation,
                   serialPorts, now, lastOp, stored, cat, rot, gps>>

\* loop() calls console->update()
ConsoleUpdate ==
    /\ con.pc = "console"
    /\ con' = Console_update(con)
    /\ UNCHANGED <<platform, factories, devices, deviceFactories, uartAllocation,
                   serialPorts, now, lastOp, stored, cat, rot, gps>>

\* One pass of while (_stream.available() < 2) { delay(1); } and, once it is
\* left, the two reads and the rest of Console::update
ConsoleEscape ==
    /\ con.pc = "escape"
    /\ IF Len(con.rx) < 2
       THEN /\ now' = IF now < MaxEscapeMs THEN now + 1 ELSE now
            /\ UNCHANGED con
       ELSE /\ con' = Console_escapeRead(con)
            /\ UNCHANGED now
    /\ UNCHANGED <<platform, factories, devices, deviceFactories, uartAllocation,
                   serialPorts, lastOp, stored, cat, rot, gps>>

\* loop() calls deviceManager.updateAll(), with a frame waiting on one UART
LoopUpdateAll ==
    /\ con.pc = "devices"
    /\ \E u \in 1..PLATFORM_MAX_UARTS, frame \in RxFrames :
          SetMgr(updateAll(Mgr, [v \in 1..PLATFORM_MAX_UARTS |->
                                   IF v = u THEN frame ELSE <<>>], now))
    /\ con' = [con EXCEPT !.pc = "console"]
    /\ UNCHANGED <<platform, now, lastOp, stored, cat, rot, gps>>

\* The board after setup() has restored and started a radio and a rotator
InitLoop ==
    /\ platform \in Platforms
    /\ now = 0
    /\ \E r \in {setup(NewMgr, LoopConfig, TRUE)} :
          /\ factories = r.m.factories
          /\ devices = r.m.devices
          /\ deviceFactories = r.m.deviceFactories
          /\ uartAllocation = r.m.uartAllocation
          /\ serialPorts = r.m.serialPorts
    /\ lastOp = [op |-> "init", arg |-> 0, id |-> INVALID_ID, ok |-> TRUE, was |-> FALSE]
    /\ stored = LoopConfig
    /\ cat = NewCAT
    /\ rot = NewRot
    /\ gps = NewGPS
    /\ con = NewCon

NextLoop ==
    \/ ConsoleArrive
    \/ ConsoleUpdate
    \/ ConsoleEscape
    \/ LoopUpdateAll

\* loop() runs forever: the processor always takes the program's next step;
\* nothing obliges a terminal to send bytes
SpecLoop ==
    InitLoop /\ [][NextLoop]_vars /\ WF_vars(ConsoleUpdate \/ ConsoleEscape \/ LoopUpdateAll)

-----------------------------------------------------------------------------
(* The options of one device of each class *)

\* getDevice(0)->setOption(name, value) with any of the strings
SetAnyOption ==
    \E name \in OptNames, value \in OptValues :
        /\ devices[0] # NoDevice
        /\ \E r \in {Device_setOption(devices[0], serialPorts[devices[0].uartIndex],
                                      name, value)} :
              /\ devices' = [devices EXCEPT ![0] = r.dev]
              /\ serialPorts' = [serialPorts EXCEPT ![devices[0].uartIndex] = r.port]
              /\ lastOp' = [op |-> "setOption", arg |-> 0, id |-> 0,
                            ok |-> r.ret, was |-> devices[0].running]
        /\ UNCHANGED <<platform, factories, deviceFactories, uartAllocation, now, stored,
                       cat, rot, gps, con>>

\* getDevice(0)->deserializeOptions(buffer, len) with any bytes
DeserializeOptions ==
    \E b1 \in OptBytes, b2 \in OptBytes, b3 \in OptBytes, len \in 0..3 :
        /\ devices[0] # NoDevice
        /\ \E r \in {Device_deserializeOptions(devices[0], <<b1, b2, b3>>, len)} :
              /\ devices' = [devices EXCEPT ![0] = r.dev]
              /\ lastOp' = [op |-> "deserializeOptions", arg |-> len, id |-> 0,
                            ok |-> r.ret, was |-> devices[0].running]
        /\ UNCHANGED <<platform, factories, deviceFactories, uartAllocation, serialPorts,
                       now, stored, cat, rot, gps, con>>

\* After setup() and 'create <type> 1' on the Nucleo G070RB
InitOpt ==
    /\ platform = "Nucleo-G070RB"
    /\ now = 0
    /\ \E t \in OptTypes :
       \E r \in {createDevice([NewMgr EXCEPT !.factories = StartupFactories], t, 1, TRUE)} :
          /\ factories = r.m.factories
          /\ devices = r.m.devices
          /\ deviceFactories = r.m.deviceFactories
          /\ uartAllocation = r.m.uartAllocation
          /\ serialPorts = r.m.serialPorts
          /\ lastOp = [op |-> "createDevice", arg |-> 1, id |-> r.ret, ok |-> TRUE,
                       was |-> FALSE]
    /\ stored = ClearedConfig
    /\ cat = NewCAT
    /\ rot = NewRot
    /\ gps = NewGPS
    /\ con = NewCon

NextOpt ==
    \/ SetAnyOption
    \/ DeserializeOptions
    \/ Begin
    \/ End

SpecOpt == InitOpt /\ [][NextOpt]_vars

-----------------------------------------------------------------------------
(* The two parsers, one received byte at a time *)

\* One pass of the while loop of CATParser::update
CatByte ==
    \E c \in CatBytes :
        /\ cat' = CAT_byte([cat EXCEPT !.tx = <<>>], c)
        /\ lastOp' = [op |-> "catByte", arg |-> ascii(toupper(c)), id |-> INVALID_ID,
                      ok |-> TRUE, was |-> FALSE]
        /\ UNCHANGED <<platform, factories, devices, deviceFactories, uartAllocation,
                       serialPorts, now, stored, rot, gps, con>>

\* One pass of the while loop of GS232Parser::update
RotByte ==
    \E c \in RotBytes :
        /\ \E p \in {GS232_byte([state |-> rot.dev.state, buffer |-> rot.buffer,
                                 tx |-> <<>>], c)} :
              rot' = [rot EXCEPT !.dev.state = p.state, !.dev.bufLen = Len(p.buffer),
                                 !.buffer = p.buffer, !.tx = p.tx]
        /\ lastOp' = [op |-> "rotByte", arg |-> ascii(toupper(c)), id |-> INVALID_ID,
                      ok |-> TRUE, was |-> FALSE]
        /\ UNCHANGED <<platform, factories, devices, deviceFactories, uartAllocation,
                       serialPorts, now, stored, cat, gps, con>>

NextBuf ==
    \/ CatByte
    \/ RotByte

\* A radio's and a rotator's parser, nothing received yet
SpecBuf == InitRot /\ [][NextBuf]_vars

-----------------------------------------------------------------------------
(* The console commands create, destroy, start and stop *)

\* create <type> <uart>
CmdCreate ==
    \E typeName \in CreateNames, uart \in UartInputs, factoryOk \in BOOLEAN :
        \E r \in {cmdCreate(Mgr, stored, typeName, uart, factoryOk)} :
            /\ SetMgr(r.m)
            /\ stored' = r.st
            /\ lastOp' = [op |-> "create", arg |-> uart, id |-> r.ret,
                          ok |-> r.ret # INVALID_ID, was |-> FALSE]
            /\ UNCHANGED <<platform, now, cat, rot, gps, con>>

\* destroy <id>
CmdDestroy ==
    \E id \in TypedIds :
        \E r \in {cmdDestroy(Mgr, stored, id)} :
            /\ SetMgr(r.m)
            /\ stored' = r.st
            /\ lastOp' = [op |-> "destroy", arg |-> id, id |-> toUint8(id),
                          ok |-> r.ret, was |-> wasRunning(Mgr, toUint8(id))]
            /\ UNCHANGED <<platform, now, cat, rot, gps, con>>

\* start <id>
CmdStart ==
    \E id \in TypedIds :
        \E r \in {cmdStart(Mgr, id)} :
            /\ SetMgr(r.m)
            /\ lastOp' = [op |-> "start", arg |-> id, id |-> toUint8(id),
                          ok |-> r.ret, was |-> wasRunning(Mgr, toUint8(id))]
            /\ UNCHANGED <<platform, now, stored, cat, rot, gps, con>>

\* stop <id>
CmdStop ==
    \E id \in TypedIds :
        \E r \in {cmdStop(Mgr, id)} :
            /\ SetMgr(r.m)
            /\ lastOp' = [op |-> "stop", arg |-> id, id |-> toUint8(id),
                          ok |-> r.ret, was |-> wasRunning(Mgr, toUint8(id))]
            /\ UNCHANGED <<platform, now, stored, cat, rot, gps, con>>

NextCmd ==
    \/ CmdCreate
    \/ CmdDestroy
    \/ CmdStart
    \/ CmdStop

\* The console of a board that setup() has started with a radio and a rotator
SpecCmd == InitLoop /\ [][NextCmd]_vars

-----------------------------------------------------------------------------
(* Properties *)

\* The live devices bound to UART u
DevicesOnUart(u) ==
    {i \in 0..(MAX_DEVICES - 1) : devices[i] # NoDevice /\ devices[i].uartIndex = u}

\* C1: every UART is owned by at most one live device, and while a device
\* created on UART u is alive every createDevice(any type, u) returns 0xFF
\* and changes nothing in the manager
C1_UartExclusive ==
    \A u \in 1..PLATFORM_MAX_UARTS :
        /\ Cardinality(DevicesOnUart(u)) <= 1
        /\ DevicesOnUart(u) # {} =>
              \A typeName \in TypeNames, factoryOk \in BOOLEAN :
                  /\ createDevice(Mgr, typeName, u, factoryOk).ret = INVALID_ID
                  /\ createDevice(Mgr, typeName, u, factoryOk).m = Mgr
        /\ (lastOp.op = "createDevice" /\ lastOp.ok /\ lastOp.arg = u) =>
              DevicesOnUart(u) = {lastOp.id}

\* C1 witness: a createDevice on a UART that a live, running device owns
\* has just failed
C1_Witness ==
    /\ lastOp.op = "createDevice"
    /\ ~lastOp.ok
    /\ lastOp.arg \in 1..PLATFORM_MAX_UARTS
    /\ \E i \in DevicesOnUart(lastOp.arg) : devices[i].running

\* The registered type names
RegisteredNames == {getTypeName(factories[i]) : i \in 1..Len(factories)}

\* C2: a createDevice that returns 0xFF, a destroyDevice that returns false
\* and a registerFactory that returns false leave the factory registry, the
\* instance array, the factory-binding array and the UART allocation table
\* as they were
C2_FailureKeepsManager ==
    [][(lastOp'.op \in {"createDevice", "destroyDevice", "registerFactory"}
            /\ ~lastOp'.ok)
        => UNCHANGED mgrVars]_vars

\* C2 witness: a createDevice of a registered type on an available UART has
\* failed (the factory produced no device) while another device is alive
C2_Witness ==
    /\ lastOp.op = "createDevice"
    /\ ~lastOp.ok
    /\ lastOp.arg \in 1..PLATFORM_MAX_UARTS
    /\ isUartAvailable(Mgr, lastOp.arg)
    /\ serialPorts[lastOp.arg].created
    /\ \E i \in 0..(MAX_DEVICES - 1) : devices[i] # NoDevice
    /\ Len(factories) = MAX_DEVICE_FACTORIES

\* C3: after destroyDevice(id) succeeds on a live device, running or not,
\* no running device is left in the slot, the UART's port is closed and the
\* UART available again (createDevice on it with any registered type
\* succeeds), getDevice(id) returns no device and the instance slot and the
\* factory-binding slot of id are empty
C3_DestroyReleases ==
    [][(lastOp'.op = "destroyDevice" /\ lastOp'.ok)
        => LET id == lastOp'.arg
           IN /\ getDevice(Mgr, id) # NoDevice
              /\ lastOp'.was = devices[id].running
              /\ getDevice(Mgr', id) = NoDevice
              /\ devices'[id] = NoDevice
              /\ deviceFactories'[id] = NULL
              /\ ~serialPorts'[devices[id].uartIndex].isOpen
              /\ isUartAvailable(Mgr', devices[id].uartIndex)
              /\ \A typeName \in RegisteredNames :
                    createDevice(Mgr', typeName, devices[id].uartIndex, TRUE).ret
                        # INVALID_ID]_vars

\* C3 witness: a running device has been destroyed while another device,
\* still running, stays
C3_Witness ==
    /\ lastOp.op = "destroyDevice"
    /\ lastOp.ok
    /\ lastOp.was
    /\ devices[lastOp.arg] = NoDevice
    /\ \E i \in 0..(MAX_DEVICES - 1) : devices[i] # NoDevice /\ devices[i].running

\* The identity of the device in slot i: its class, UART and id
Identity(d) == IF d = NoDevice THEN <<"none">> ELSE <<d.kind, d.uartIndex, d.deviceId>>

\* C4: a device is stopped after createDevice, running after a successful
\* begin(), stopped after end(); end() on a stopped device leaves the running
\* flags, the UART allocation table and the instance arrays as they were; an
\* empty slot stays empty (so nothing runs in it) until a createDevice fills it
C4_Lifecycle ==
    [][/\ (lastOp'.op = "createDevice" /\ lastOp'.ok) =>
              /\ devices[lastOp'.id] = NoDevice
              /\ devices'[lastOp'.id] # NoDevice
              /\ ~devices'[lastOp'.id].running
       /\ (lastOp'.op = "begin" /\ lastOp'.ok) => devices'[lastOp'.arg].running
       /\ lastOp'.op = "end" => ~devices'[lastOp'.arg].running
       /\ (lastOp'.op = "end" /\ ~lastOp'.was) =>
              /\ \A i \in 0..(MAX_DEVICES - 1) :
                    /\ Identity(devices'[i]) = Identity(devices[i])
                    /\ devices[i] # NoDevice => devices'[i].running = devices[i].running
              /\ UNCHANGED <<deviceFactories, uartAllocation>>
       /\ \A i \in 0..(MAX_DEVICES - 1) :
              (devices[i] = NoDevice /\ devices'[i] # NoDevice) =>
                  (lastOp'.op = "createDevice" /\ lastOp'.id = i)
       /\ \A i \in 0..(MAX_DEVICES - 1) :
              (devices[i] # NoDevice /\ devices'[i] # NoDevice
                    /\ devices[i].running # devices'[i].running) =>
                  (lastOp'.op \in {"begin", "end"} /\ lastOp'.arg = i)
      ]_vars

\* C4 witness: end() has been called on a stopped device that had been
\* started and stopped before (its port exists and is closed)
C4_Witness ==
    /\ lastOp.op = "end"
    /\ ~lastOp.was
    /\ devices[lastOp.arg] # NoDevice
    /\ ~devices[lastOp.arg].running
    /\ devices[lastOp.arg].kind = "G5500Device"
    /\ \E i \in 0..(MAX_DEVICES - 1) :
          i # lastOp.arg /\ devices[i] # NoDevice /\ devices[i].running

\* Everything of the program except the device in slot id and the port of
\* its UART is left as it was
OnlyDeviceChanged(id) ==
    /\ UNCHANGED <<platform, factories, deviceFactories, uartAllocation, now>>
    /\ \A i \in 0..(MAX_DEVICES - 1) : i # id => devices'[i] = devices[i]
    /\ \A u \in 1..PLATFORM_MAX_UARTS :
          u # devices[id].uartIndex => serialPorts'[u] = serialPorts[u]

\* C5: end() changes only the running flag and the open state of the UART;
\* for every device class the state model (and the identity and options of
\* the device) is the same after end() as before it
C5_EndKeepsState ==
    [][lastOp'.op = "end"
        => LET id == lastOp'.arg
           IN /\ OnlyDeviceChanged(id)
              /\ Identity(devices'[id]) = Identity(devices[id])
              /\ devices'[id].options = devices[id].options
              /\ StateModel(devices[id].kind, devices'[id].state)
                    = StateModel(devices[id].kind, devices[id].state)]_vars

\* C6: after begin() returns true on a stopped device the port is open at
\* the configured rate and the state model is the default state of reset(),
\* for every device class
C6_BeginResetsState ==
    [][(lastOp'.op = "begin" /\ lastOp'.ok /\ ~lastOp'.was)
        => LET id == lastOp'.arg
           IN /\ devices'[id].running
              /\ serialPorts'[devices[id].uartIndex].isOpen
              /\ serialPorts'[devices[id].uartIndex].baud = OptionBaud(devices'[id])
              /\ StateModel(devices[id].kind, devices'[id].state)
                    = StateModel(devices[id].kind, StateReset(devices[id].kind))]_vars

\* C7: when setOption has changed the baud_rate option of a running device
\* (whatever the spelling of the option name it accepted), the UART is open
\* at the new rate, the device still runs and its state model is unchanged;
\* and a running device's UART is always open at the rate of its option
C7_BaudFollowsOption ==
    [][/\ (lastOp'.op = "setOption" /\ lastOp'.ok /\ lastOp'.was
              /\ OptionBaud(devices'[lastOp'.arg]) # OptionBaud(devices[lastOp'.arg]))
          => LET id == lastOp'.arg
             IN /\ devices'[id].running
                /\ serialPorts'[devices[id].uartIndex].isOpen
                /\ serialPorts'[devices[id].uartIndex].baud = OptionBaud(devices'[id])
                /\ devices'[id].state = devices[id].state
       /\ \A i \in 0..(MAX_DEVICES - 1) :
              (devices'[i] # NoDevice /\ devices'[i].running) =>
                  /\ serialPorts'[devices'[i].uartIndex].isOpen
                  /\ serialPorts'[devices'[i].uartIndex].baud = OptionBaud(devices'[i])
      ]_vars

\* Some registered factory has a type name equal to that of f ignoring case
RegisteredIgnoringCase(f) ==
    \E i \in 1..Len(factories) : strcasecmp(getTypeName(factories[i]), getTypeName(f)) = 0

\* C8: registerFactory returns false and registers nothing when a factory of
\* the same type name ignoring case is registered or the registry is full,
\* and appends the factory and returns true otherwise; no two registered
\* factories have type names that are equal ignoring case
C8_RegistryCaseUnique ==
    [][/\ (lastOp'.op = "registerFactory" /\ lastOp'.arg # 0) =>
              LET f == FactoryList[lastOp'.arg]
              IN IF RegisteredIgnoringCase(f) \/ Len(factories) >= MAX_DEVICE_FACTORIES
                 THEN ~lastOp'.ok /\ factories' = factories
                 ELSE lastOp'.ok /\ factories' = Append(factories, f)
       /\ \A i, j \in 1..Len(factories') :
              i # j => strcasecmp(getTypeName(factories'[i]),
                                  getTypeName(factories'[j])) # 0
      ]_vars

\* The category aliases in several spellings
Aliases == {S_radio, S_Radio, S_rotator, S_ROTATOR, S_gps, S_GPS}

\* C9: with the startup factories registered, createDevice with a category
\* alias in any letter case on a free valid UART succeeds and creates a
\* device of that category
C9_AliasCreates ==
    factories = StartupFactories =>
        \A alias \in Aliases, u \in DeclaredUarts :
            isUartAvailable(Mgr, u) =>
                LET r == createDevice(Mgr, alias, u, TRUE)
                IN /\ r.ret # INVALID_ID
                   /\ strcasecmp(CategoryOf(r.m.devices[r.ret].kind), alias) = 0

\* C10: createDevice with a registered type and a free slot succeeds on
\* every UART the platform declares and isUartAvailable reports available,
\* and binds the new device to that UART
C10_DeclaredUartCreates ==
    \A u \in DeclaredUarts, typeName \in RegisteredNames :
        (isUartAvailable(Mgr, u) /\ findFreeDeviceSlot(Mgr) # INVALID_ID) =>
            LET r == createDevice(Mgr, typeName, u, TRUE)
            IN /\ r.ret # INVALID_ID
               /\ r.m.devices[r.ret].uartIndex = u
               /\ r.m.uartAllocation[u] = r.ret

-----------------------------------------------------------------------------
(* C11: loading the stored configuration *)

\* The manager setup() hands to ConfigStorage::load
RegisteredMgr == setup(NewMgr, ClearedConfig, TRUE).m

\* The manager after load has gone through the first n stored entries
loadedPrefix(n) == load(RegisteredMgr, [stored EXCEPT !.deviceCount = n], TRUE).m

\* The number of stored entries load goes through
loadCount == IF stored.deviceCount < MAX_DEVICES THEN stored.deviceCount ELSE MAX_DEVICES

\* The class of device a stored type name stands for, "none" without one
storedClass(m, e) ==
    IF Len(e.typeName) = 0 \/ findFactory(m, resolveTypeName(e.typeName)) = NULL
    THEN "none"
    ELSE FactoryClass(findFactory(m, resolveTypeName(e.typeName)))

\* Every stored option byte is a value serializeOptions can have written
goodOptionBytes(kind, data) ==
    CASE kind = "YaesuDevice"   -> data[1] < Yaesu_NUM_BAUD_RATES
      [] kind = "G5500Device"   -> /\ data[1] < G5500_NUM_BAUD_RATES
                                   /\ data[2] >= MIN_SPEED /\ data[2] <= MAX_SPEED
                                   /\ data[3] >= MIN_SPEED /\ data[3] <= MAX_SPEED
      [] kind = "NMEAGPSDevice" -> /\ data[1] < NMEA_NUM_BAUD_RATES
                                   /\ data[2] < NMEA_NUM_UPDATE_RATES
      [] OTHER -> FALSE

\* The options of a device restored from the option bytes data: a byte that
\* is out of range gives the option's default
restoredOptions(kind, data) ==
    CASE kind = "YaesuDevice" ->
            << IF data[1] < Yaesu_NUM_BAUD_RATES THEN data[1] ELSE Yaesu_DEFAULT_BAUD_INDEX,
               data[2] # 0 >>
      [] kind = "G5500Device" ->
            << IF data[1] < G5500_NUM_BAUD_RATES THEN data[1] ELSE G5500_DEFAULT_BAUD_INDEX,
               IF data[2] >= MIN_SPEED /\ data[2] <= MAX_SPEED THEN data[2]
                                                             ELSE DEFAULT_AZ_SPEED_INT,
               IF data[3] >= MIN_SPEED /\ data[3] <= MAX_SPEED THEN data[3]
                                                             ELSE DEFAULT_EL_SPEED_INT >>
      [] kind = "NMEAGPSDevice" ->
            << IF data[1] < NMEA_NUM_BAUD_RATES THEN data[1] ELSE NMEA_DEFAULT_BAUD_INDEX,
               IF data[2] < NMEA_NUM_UPDATE_RATES THEN data[2] ELSE NMEA_DEFAULT_RATE_INDEX >>

\* Entry e was restored between the managers b and a: the first free slot of
\* b holds a device of e's type on e's UART with e's options, nothing else moved
restoredAs(b, a, e) ==
    LET slot == findFreeDeviceSlot(b)
    IN /\ slot # INVALID_ID
       /\ a.devices[slot] # NoDevice
       /\ a.devices[slot].kind = storedClass(b, e)
       /\ a.devices[slot].uartIndex = e.uartIndex
       /\ a.devices[slot].options = restoredOptions(storedClass(b, e), e.optionData)
       /\ a.uartAllocation[e.uartIndex] = slot
       /\ \A i \in 0..(MAX_DEVICES - 1) : i # slot => a.devices[i] = b.devices[i]

\* Entry e was skipped between the managers b and a
skippedAs(b, a) ==
    /\ a.devices = b.devices
    /\ a.uartAllocation = b.uartAllocation
    /\ a.deviceFactories = b.deviceFactories

\* The devices setup() leaves are the devices load restored
devicesAreLoaded ==
    \A i \in 0..(MAX_DEVICES - 1) :
        /\ Identity(devices'[i]) = Identity(loadedPrefix(loadCount).devices[i])
        /\ devices'[i] # NoDevice =>
              devices'[i].options = loadedPrefix(loadCount).devices[i].options

\* A configuration that is not read restores nothing
nothingRestored ==
    /\ lastOp'.arg = 0
    /\ devices' = NewMgr.devices
    /\ deviceFactories' = NewMgr.deviceFactories
    /\ uartAllocation' = NewMgr.uartAllocation
    /\ serialPorts' = NewMgr.serialPorts

\* A step of setup() in which no allocation fails
isSetupStep == lastOp.op = "init" /\ lastOp'.op = "setup" /\ lastOp'.ok

\* An entry the claim calls restorable: valid, of a known type, on an
\* available UART, with good option bytes
claimedRestorable(m, e) ==
    /\ e.valid = 1
    /\ storedClass(m, e) # "none"
    /\ isUartAvailable(m, e.uartIndex)
    /\ goodOptionBytes(storedClass(m, e), e.optionData)

\* An entry load restores: valid, of a known type, on an available UART
\* that has a serial port, whatever its option bytes
restorable(m, e) ==
    /\ e.valid = 1
    /\ storedClass(m, e) # "none"
    /\ isUartAvailable(m, e.uartIndex)
    /\ getSerialForUart(m, e.uartIndex).ok

-----------------------------------------------------------------------------
(* C12..C20: the CAT parser *)

\* The parser is between two frames
atFrameStart == cat.buffer = <<>>

\* The bytes of the frame of command cmd with parameter params
frame(cmd, params) == cmd \o params \o <<CAT_TERMINATOR>>

\* 9-digit frequencies from FREQ_MIN to FREQ_MAX
RoundTripFreqs ==
    {<<"0","0","0","0","3","0","0","0","0">>, <<"0","0","0","0","3","0","0","0","1">>, <<"0","0","7","0","0","0","0","0","0">>,
     <<"0","1","4","0","7","4","0","0","0">>, <<"1","2","3","4","5","6","7","8","9">>, <<"4","7","0","0","0","0","0","0","0">>}

\* C12: for every 9-digit frequency f in [FREQ_MIN, FREQ_MAX] and from every
\* radio state, the write FA{f}; is silent and the read FA; that follows is
\* answered with exactly FA{f}; and nothing else; the same for FB.
C12_FreqRoundTrip ==
    atFrameStart =>
        \A f \in RoundTripFreqs, cmd \in {<<"F","A">>, <<"F","B">>} :
            LET written == CATParser_update(cat, frame(cmd, f))
                read    == CATParser_update(written, frame(cmd, <<>>))
            IN /\ written.tx = <<>>
               /\ read.tx = <<frame(cmd, f)>>
               /\ read.state = written.state

\* VFO-B was written with 470000000 and read back in one burst
C12_Witness ==
    /\ cat.tx = <<frame(<<"F","B">>, <<"4","7","0","0","0","0","0","0","0">>)>>
    /\ cat.state.freqVfoB = FREQ_MAX
    /\ atFrameStart

\* Frames that are protocol errors: unknown two-letter codes, frames of one
\* character, FA / FB writes out of range
ErrorFrames ==
    {<<"Z","Z",";">>, <<"F","C",";">>, <<"A","B","1","2","3",";">>,
     <<"F",";">>, <<"A",";">>, <<"1",";">>,
     <<"F","A","0","0","0","0","2","9","9","9","9",";">>, <<"F","B","0","0","0","0","2","9","9","9","9",";">>, <<"F","A","4","7","0","0","0","0","0","0","1",";">>,
     <<"F","B","9","9","9","9","9","9","9","9","9",";">>, <<"F","A","0","0","0","0","0","0","0","0","0",";">>}

\* Valid frames sent after an error
ProbeFrames ==
    {<<"F","A",";">>, <<"M","D","0","3",";">>}

\* C13: an unknown two-letter command, a frame of fewer than 2 characters
\* and an FA / FB write out of range emit nothing and leave the whole radio
\* state unchanged, and a valid frame after them is processed as it is
\* without them.
C13_ErrorsIgnored ==
    atFrameStart =>
        \A v \in ProbeFrames :
            LET plain == CATParser_update(cat, v)
            IN \A e \in ErrorFrames :
                  LET after == CATParser_update(cat, e)
                  IN /\ after.tx = <<>>
                     /\ after.state = cat.state
                     /\ after.buffer = <<>>
                     /\ CATParser_update(cat, e \o v) = plain

\* The burst ZZ; F; ; FA000029999; ID; has been received after VFO-A was
\* written: only ID was answered and VFO-A kept its value
C13_Witness ==
    /\ cat.tx = <<frame(<<"I","D">>, <<"0","6","7","0">>)>>
    /\ cat.state.freqVfoA = 30000
    /\ atFrameStart

\* Parameters the claim calls malformed: fewer or more than 9 digits, a
\* sign, a space, a letter
MalformedParams ==
    {<<"7","0","0","0","0","0","0">>, <<"3","0","0","0","0">>, <<"0","0","0","7","0","0","0","0","0","0">>,
     <<" ","1","4","0","7","4","0","0","0">>, <<"+","0","7","0","0","0","0","0","0">>, <<"-","0","7","0","0","0","0","0","0">>,
     <<"0","0","7","0","0","0","0","0","A">>, <<"0","0","7","0"," ","0","0","0","0">>, <<"A","B","C","D","E","F","G","H","I">>,
     <<"0","0","7","0","0","0","0","0","0"," ">>}

AcceptedParams ==
    { <<<<"7","0","0","0","0","0","0">>, 7000000>>, <<<<"3","0","0","0","0">>, 30000>>,
      <<<<"0","0","0","7","0","0","0","0","0","0">>, 7000000>>, <<<<" ","1","4","0","7","4","0","0","0">>, 14074000>>,
      <<<<"+","0","7","0","0","0","0","0","0">>, 7000000>>, <<<<"4","7","0","0","0","0","0","0","0">>, 470000000>>,
      <<<<" "," ","+","3","0","0","0","0">>, 30000>> }

\* Parameters with a character after the digits, without a digit, with a
\* minus sign, or with a value out of range
RejectedParams ==
    {<<"0","0","7","0","0","0","0","0","A">>, <<"0","0","7","0"," ","0","0","0","0">>, <<"A","B","C","D","E","F","G","H","I">>,
     <<"0","0","7","0","0","0","0","0","0"," ">>, <<"-","0","7","0","0","0","0","0","0">>, <<"-">>,
     <<"+">>, <<" ">>, <<"2","9","9","9","9">>,
     <<"0","0","0","0","0","2","9","9","9","9">>, <<"4","7","0","0","0","0","0","0","1">>, <<"4","7","0","0","0","0","0","0","0","0">>,
     <<"7","0","0","0","0","0","0",".","0">>, <<"0","X","7","0","0","0","0","0","0">>}

ModeDigits == {"1", "2", "3", "4", "5", "6", "7", "8", "9"}

\* C15: after the mode write MD0n; with n a valid mode, the mode read MD0;
\* is answered with exactly MD0n;.
C15_ModeReadBack ==
    atFrameStart =>
        \A n \in ModeDigits :
            LET written == CATParser_update(cat, frame(<<"M","D">>, <<"0", n>>))
                read    == CATParser_update(written, frame(<<"M","D">>, <<"0">>))
            IN read.tx = <<frame(<<"M","D">>, <<"0", n>>)>>

\* What follows CAT_BUFFER_SIZE bytes that came without a terminator
OverflowTails ==
    {<<"F","A",";">>, <<"F","A","0","0","7","0","0","0","0","0","0",";">>, <<"M","D","0","3",";">>,
     <<";">>}

\* C17: when more bytes than the buffer holds arrive without a terminator,
\* nothing sent before the terminator is executed: no response is written
\* and the radio state is unchanged.
C17_OverflowDiscarded ==
    atFrameStart =>
        \A tail \in OverflowTails :
            LET after == CATParser_update(cat, [i \in 1..CAT_BUFFER_SIZE |-> "X"] \o tail)
            IN after.tx = <<>> /\ after.state = cat.state

\* RIT parameters of 4 or more characters with their decimal value clamped
\* to [-9999, 9999]
RitWrites ==
    { <<<<"0","1","0","0">>, 100>>, <<<<"9","9","9","9">>, 9999>>,
      <<<<"1","0","0","0","0">>, 9999>>, <<<<"4","0","0","0","0">>, 9999>>,
      <<<<"-","0","5","0","0">>, -500>>, <<<<"-","4","0","0","0","0">>, -9999>> }

\* C18: RU and RD with 4 or more parameter characters set the RIT offset to
\* the parameter's value clamped to [-9999, 9999]; without a parameter RU
\* adds 10 and RD subtracts 10, clamped to the same range.
C18_RitClamped ==
    atFrameStart =>
        /\ \A w \in RitWrites, cmd \in {<<"R","U">>, <<"R","D">>} :
              CATParser_update(cat, frame(cmd, w[1])).state.ritOffset = w[2]
        /\ CATParser_update(cat, frame(<<"R","U">>, <<>>)).state.ritOffset =
              constrain(cat.state.ritOffset + 10, -9999, 9999)
        /\ CATParser_update(cat, frame(<<"R","D">>, <<>>)).state.ritOffset =
              constrain(cat.state.ritOffset - 10, -9999, 9999)

\* Value-setting frames
WriteFrames ==
    {<<"F","A","0","0","7","0","0","0","0","0","0",";">>, <<"F","B","0","1","4","0","7","4","0","0","0",";">>, <<"M","D","0","3",";">>, <<"P","S","0",";">>, <<"P","S","1",";">>,
     <<"T","X","1",";">>, <<"T","X","0",";">>, <<"V","S","1",";">>, <<"V","S","0",";">>, <<"R","I","1",";">>,
     <<"X","T","1",";">>, <<"A","G","0","1","0","0",";">>, <<"R","G","0","0","5","0",";">>, <<"S","Q","0","0","3","0",";">>, <<"R","D",";">>,
     <<"R","U",";">>, <<"R","D","0","1","0","0",";">>, <<"R","U","0","1","0","0",";">>}

\* The commands that are read with empty parameters
ReadCmds ==
    {<<"F","A">>, <<"F","B">>, <<"M","D">>, <<"P","S">>, <<"T","X">>, <<"V","S">>,
     <<"R","I">>, <<"X","T">>, <<"A","G">>, <<"R","G">>, <<"S","Q">>, <<"I","F">>,
     <<"I","D">>, <<"S","M">>, <<"R","M">>}

\* The reads sent two in a burst
PairedReads ==
    {<<"F","B">>, <<"M","D">>, <<"I","D">>}

\* f is one response frame to the command cmd: cmd, data, one terminator
isResponseTo(cmd, f) ==
    /\ Len(f) >= 4
    /\ SubSeq(f, 1, 2) = cmd
    /\ f[Len(f)] = CAT_TERMINATOR
    /\ \A i \in 1..(Len(f) - 1) : f[i] # CAT_TERMINATOR

\* C16: a value-setting command writes no byte to the UART; a read command
\* writes exactly one response frame ending in ';' before the next command
\* is processed, so the responses come in the order of the reads.
C16_WritesSilentReadsAnswer ==
    atFrameStart =>
        /\ \A w \in WriteFrames : CATParser_update(cat, w).tx = <<>>
        /\ \A c \in ReadCmds :
              LET read == CATParser_update(cat, frame(c, <<>>))
              IN /\ Len(read.tx) = 1
                 /\ isResponseTo(c, read.tx[1])
                 /\ read.state = cat.state
        /\ \A c1 \in PairedReads, c2 \in PairedReads :
              LET both == CATParser_update(cat, frame(c1, <<>>) \o frame(c2, <<>>))
              IN /\ Len(both.tx) = 2
                 /\ isResponseTo(c1, both.tx[1])
                 /\ isResponseTo(c2, both.tx[2])
        /\ CATParser_update(cat, <<"F","A",";","F","A","0","0","7","0","0","0","0","0","0",";","F","A",";">>).tx =
              CATParser_update(cat, <<"F","A",";">>).tx \o <<<<"F","A","0","0","7","0","0","0","0","0","0",";">>>>

\* After the silent writes TX1; PS0; ..., the burst FB; MD; IF; was
\* answered with three frames in that order
C16_Witness ==
    /\ cat.state.ptt /\ ~cat.state.powerOn
    /\ cat.state.currentVfo = "VFO_A"
    /\ Len(cat.tx) = 3
    /\ isResponseTo(<<"F","B">>, cat.tx[1])
    /\ isResponseTo(<<"M","D">>, cat.tx[2])
    /\ isResponseTo(<<"I","F">>, cat.tx[3])

\* The ranges of the radio state
RadioInRange(st) ==
    /\ st.freqVfoA >= 30000 /\ st.freqVfoA <= 470000000
    /\ st.freqVfoB >= 30000 /\ st.freqVfoB <= 470000000
    /\ st.modeVfoA \in 1..14
    /\ st.modeVfoB \in 1..14
    /\ st.ritOffset >= -9999 /\ st.ritOffset <= 9999
    /\ st.squelch >= 0 /\ st.squelch <= 100
    /\ st.currentVfo \in {"VFO_A", "VFO_B"}

\* Frames that try to leave the ranges
RangeProbes ==
    {<<"M","D","0","0",";">>, <<"M","D","0","?",";">>, <<"M","D","0","/",";">>, <<"M","D","0","A",";">>, <<"M","D","0",">",";">>,
     <<"M","D","0",":",";">>, <<"S","Q","0","9","9","9",";">>, <<"S","Q","0","1","0","0",";">>, <<"S","Q","0","-","0","0","1",";">>, <<"R","U","9","9","9","9","9",";">>,
     <<"R","D","-","9","9","9","9","9",";">>, <<"R","U","3","2","7","6","8",";">>, <<"F","A","0","0","0","0","0","0","0","0","1",";">>, <<"F","B","9","9","9","9","9","9","9","9","9",";">>, <<"V","S","2",";">>,
     <<"V","S","9",";">>}

\* The meters of the console's meter commands
MeterTypes == {"SMETER", "POWER", "SWR", "ALC", "COMP"}

\* C19: in every radio state reached through CAT bytes and meter setters the
\* two VFO frequencies are in [30000, 470000000], the two modes in 1..14, the
\* RIT offset in [-9999, 9999], squelch at most 100, and VFO A or B current;
\* no frame and no meter setter leads out of these ranges.
C19_RadioInRange ==
    /\ RadioInRange(cat.state)
    /\ atFrameStart => \A f \in RangeProbes : RadioInRange(CATParser_update(cat, f).state)
    /\ \A type \in MeterTypes, value \in {0, 255} :
          RadioInRange(setMeter(cat.state, type, value).st)

\* The state after writes at both ends of the ranges and a meter setter
C19_Witness ==
    /\ cat.state.squelch = 100
    /\ cat.state.ritOffset = -9999
    /\ cat.state.modeVfoB = 14
    /\ cat.state.freqVfoA = FREQ_MIN
    /\ cat.state.freqVfoB = FREQ_MAX
    /\ cat.state.smeter = 200

\* Mode characters with the mode they select
ModeWrites == {<<"1", 1>>, <<"3", 3>>, <<"9", 9>>, <<">", 14>>}

\* C20: an MD write changes the mode of the current VFO and nothing else;
\* the MD and IF reads report the mode and the frequency of the current VFO;
\* FA and FB write and read VFO-A and VFO-B whichever VFO is current, and
\* leave the choice of the current VFO alone.
C20_CurrentVfoOnly ==
    atFrameStart =>
        LET st      == cat.state
            isA     == st.currentVfo = "VFO_A"
            curMode == IF isA THEN st.modeVfoA ELSE st.modeVfoB
            curFreq == IF isA THEN st.freqVfoA ELSE st.freqVfoB
            ifRead  == CATParser_update(cat, <<"I","F",";">>)
        IN /\ \A w \in ModeWrites :
                 CATParser_update(cat, frame(<<"M","D">>, <<"0", w[1]>>)).state =
                    IF isA THEN [st EXCEPT !.modeVfoA = w[2]]
                           ELSE [st EXCEPT !.modeVfoB = w[2]]
           /\ CATParser_update(cat, <<"M","D",";">>).tx =
                 <<frame(<<"M","D">>, <<"0">> \o fmtInt(curMode))>>
           /\ SubSeq(ifRead.tx[1], 3, 11) = fmtZero(9, curFreq)
           /\ SubSeq(ifRead.tx[1], 18, 19) = fmtZero(2, curMode)
           /\ ifRead.state = st
           /\ CATParser_update(cat, <<"F","A","0","0","7","0","0","0","0","0","0",";">>).state =
                 [st EXCEPT !.freqVfoA = 7000000]
           /\ CATParser_update(cat, <<"F","B","0","0","7","0","0","0","0","0","0",";">>).state =
                 [st EXCEPT !.freqVfoB = 7000000]
           /\ CATParser_update(cat, <<"F","A",";">>).tx =
                 <<frame(<<"F","A">>, fmtZero(9, st.freqVfoA))>>
           /\ CATParser_update(cat, <<"F","B",";">>).tx =
                 <<frame(<<"F","B">>, fmtZero(9, st.freqVfoB))>>

\* With VFO-B current, the mode write MD0>; changed VFO-B only and the
\* reads MD; and IF; reported VFO-B
C20_Witness ==
    /\ cat.state.currentVfo = "VFO_B"
    /\ cat.state.modeVfoB = 14 /\ cat.state.modeVfoA = 2
    /\ cat.state.freqVfoB = FREQ_MAX /\ cat.state.freqVfoA = DEFAULT_FREQ_VFO_A
    /\ Len(cat.tx) = 3
    /\ cat.tx[2] = <<"M","D","0","1","4",";">>
    /\ SubSeq(cat.tx[3], 3, 11) = <<"4","7","0","0","0","0","0","0","0">>

-----------------------------------------------------------------------------
(* G-5500 rotator *)

\* M and W commands with a missing field, a field that is not a number, or
\* an angle out of range
BadGotoFrames ==
    {<<"M","\r">>, <<"M","A","B","C","\r">>, <<"M","4","5","1","\r">>,
     <<"M","-","1","\r">>, <<"W","1","8","0","\r">>, <<"W"," ","0","9","0","\r">>,
     <<"W","A","B","C"," ","0","9","0","\r">>, <<"W","4","5","1"," ","0","9","0","\r">>, <<"W","1","8","0"," ","1","8","1","\r">>,
     <<"W","1","8","0"," ","A","B","C","\r">>, <<"M","1","2","X","\r">>, <<"W","0","9","0"," ","0","4","5","X","\r">>}

\* C21: an M or W command with a missing or non-numeric field or an angle
\* out of range (azimuth outside 0..450, elevation outside 0..180) changes
\* nothing of the rotator state and is not answered
C21_BadGotoDropped ==
    (rot.dev.running /\ Len(rot.buffer) = 0) =>
        \A f \in BadGotoFrames :
            \E p \in {GS232Parser_update([state |-> rot.dev.state, buffer |-> <<>>,
                                          tx |-> <<>>], f)} :
                p.state = rot.dev.state /\ p.tx = <<>>

\* |a - b|
absDiff(a, b) == IF a >= b THEN a - b ELSE b - a

\* The azimuth speed option, degrees per second = millidegrees per millisecond
azSpeedOf(r) == r.dev.options[2]
elSpeedOf(r) == r.dev.options[3]

\* The azimuth goto that the last bytes or console call left in progress has
\* arrived: the position is its target and the axis has stopped
azGotoArrived ==
    /\ rot.dev.state.azimuth = rot.base.targetAzimuth
    /\ rot.dev.state.azRotation = "STOPPED"
    /\ ~rot.dev.state.azGotoMode

C23_PositionInRange ==
    /\ rot.dev.state.azimuth >= AZ_MIN /\ rot.dev.state.azimuth <= AZ_MAX
    /\ rot.dev.state.elevation >= EL_MIN /\ rot.dev.state.elevation <= EL_MAX

C23_Witness ==
    /\ rot.base.elRotation = "CW"
    /\ rot.base.elevation < EL_MAX
    /\ rot.dev.state.elevation = EL_MAX
    /\ rot.dev.state.elRotation = "STOPPED"

\* A step in which update() ran with no bytes waiting: only the integration
isIntegrationStep ==
    /\ rot' # rot
    /\ rot'.ops = rot.ops
    /\ rot'.ticks = rot.ticks

\* The time the integration of this step covers: nothing below 10 ms
integrated == IF now - rot.dev.state.lastUpdateMs < MIN_UPDATE_INTERVAL THEN 0
              ELSE now - rot.dev.state.lastUpdateMs

\* Where the axis would be after this step if nothing held it back
azAhead == IF rot.dev.state.azRotation = "CW"
           THEN rot.dev.state.azimuth + azSpeedOf(rot) * integrated
           ELSE rot.dev.state.azimuth - azSpeedOf(rot) * integrated
elAhead == IF rot.dev.state.elRotation = "CW"
           THEN rot.dev.state.elevation + elSpeedOf(rot) * integrated
           ELSE rot.dev.state.elevation - elSpeedOf(rot) * integrated

\* Goto-mode of an axis implies rotation towards a target not yet reached
gotoHeadsForTarget(st) ==
    /\ st.azGotoMode =>
          \/ st.azRotation = "CW" /\ st.azimuth < st.targetAzimuth
          \/ st.azRotation = "CCW" /\ st.azimuth > st.targetAzimuth
    /\ st.elGotoMode =>
          \/ st.elRotation = "CW" /\ st.elevation < st.targetElevation
          \/ st.elRotation = "CCW" /\ st.elevation > st.targetElevation

\* C24: goto-mode of an axis implies rotation in the direction of
\* (target - current) with the position short of the target; integration
\* keeps the direction, and it clears goto-mode and stops the axis, with the
\* position set to the target, exactly in the step that reaches or passes it
C24_GotoInvariant ==
    [][/\ gotoHeadsForTarget(rot'.dev.state)
       /\ (isIntegrationStep /\ rot.dev.state.azGotoMode) =>
             IF integrated > 0 /\ absDiff(azAhead, rot.dev.state.azimuth)
                                    >= absDiff(rot.dev.state.targetAzimuth,
                                               rot.dev.state.azimuth)
             THEN /\ rot'.dev.state.azimuth = rot.dev.state.targetAzimuth
                  /\ rot'.dev.state.azRotation = "STOPPED"
                  /\ ~rot'.dev.state.azGotoMode
             ELSE /\ rot'.dev.state.azimuth = azAhead
                  /\ rot'.dev.state.azRotation = rot.dev.state.azRotation
                  /\ rot'.dev.state.azGotoMode
       /\ (isIntegrationStep /\ rot.dev.state.elGotoMode) =>
             IF integrated > 0 /\ absDiff(elAhead, rot.dev.state.elevation)
                                    >= absDiff(rot.dev.state.targetElevation,
                                               rot.dev.state.elevation)
             THEN /\ rot'.dev.state.elevation = rot.dev.state.targetElevation
                  /\ rot'.dev.state.elRotation = "STOPPED"
                  /\ ~rot'.dev.state.elGotoMode
             ELSE /\ rot'.dev.state.elevation = elAhead
                  /\ rot'.dev.state.elRotation = rot.dev.state.elRotation
                  /\ rot'.dev.state.elGotoMode
      ]_vars

C24_Witness ==
    /\ rot.dev.state.azGotoMode
    /\ rot.dev.state.azRotation = "CCW"
    /\ rot.dev.state.azimuth < rot.base.azimuth
    /\ rot.dev.state.azimuth > rot.dev.state.targetAzimuth

\* C25: under manual rotation an integration step moves the axis whatever
\* the stored target is; a step that would pass a range bound puts the axis
\* on the bound and stops it, and integration stops a manual axis nowhere else
C25_ManualStopsAtBound ==
    [][/\ (/\ isIntegrationStep
           /\ rot.dev.state.azRotation # "STOPPED"
           /\ ~rot.dev.state.azGotoMode) =>
             /\ rot'.dev.state.azimuth = constrain(azAhead, AZ_MIN, AZ_MAX)
             /\ rot'.dev.state.azRotation =
                   IF azAhead < AZ_MIN \/ azAhead > AZ_MAX
                   THEN "STOPPED" ELSE rot.dev.state.azRotation
             /\ rot'.dev.state.azRotation = "STOPPED" =>
                   rot'.dev.state.azimuth \in {AZ_MIN, AZ_MAX}
             /\ rot'.dev.state.targetAzimuth = rot.dev.state.targetAzimuth
       /\ (/\ isIntegrationStep
           /\ rot.dev.state.elRotation # "STOPPED"
           /\ ~rot.dev.state.elGotoMode) =>
             /\ rot'.dev.state.elevation = constrain(elAhead, EL_MIN, EL_MAX)
             /\ rot'.dev.state.elRotation =
                   IF elAhead < EL_MIN \/ elAhead > EL_MAX
                   THEN "STOPPED" ELSE rot.dev.state.elRotation
             /\ rot'.dev.state.elRotation = "STOPPED" =>
                   rot'.dev.state.elevation \in {EL_MIN, EL_MAX}
             /\ rot'.dev.state.targetElevation = rot.dev.state.targetElevation
      ]_vars

C25_Witness ==
    /\ rot.base.azRotation = "CW"
    /\ ~rot.base.azGotoMode
    /\ rot.base.targetAzimuth > rot.base.azimuth
    /\ rot.dev.state.azimuth = AZ_MAX
    /\ rot.dev.state.azRotation = "STOPPED"

-----------------------------------------------------------------------------
(* NMEA GPS *)

\* The seconds from 1 January 2025 00:00:00 to the clock of st, in the
\* simulator's calendar of twelve 28-day months
clockSecs(st) ==
    ((((st.year - 2025) * 12 + (st.month - 1)) * 28 + (st.day - 1)) * 24 + st.hour) * 3600
    + st.minute * 60 + st.second

\* hhmmss.00 of the clock of st
clockText(st) ==
    zeroPad(decStr(st.hour), 2) \o zeroPad(decStr(st.minute), 2)
    \o zeroPad(decStr(st.second), 2) \o <<".", "0", "0">>

\* The index after the k-th comma of s
RECURSIVE afterComma(_, _, _)
afterComma(s, i, k) ==
    IF k = 0 THEN i
    ELSE IF i > Len(s) THEN i
    ELSE afterComma(s, i + 1, IF s[i] = "," THEN k - 1 ELSE k)

\* The characters of s from i up to the next comma or '*'
RECURSIVE fieldAt(_, _)
fieldAt(s, i) ==
    IF i > Len(s) THEN <<>>
    ELSE IF s[i] \in {",", "*"} THEN <<>>
    ELSE <<s[i]>> \o fieldAt(s, i + 1)

\* Field k of sentence s; field 0 is the address ($GPGGA, ...)
nmeaField(s, k) == fieldAt(s, afterComma(s, 1, k))

\* One cycle: GGA, RMC, GSA, the two GSV of the eight satellites, VTG
cycleInOrder(tx) ==
    /\ Len(tx) = 6
    /\ [i \in 1..6 |-> nmeaField(tx[i], 0)]
         = <<S_GPGGA, S_GPRMC, S_GPGSA, S_GPGSV, S_GPGSV, S_GPVTG>>
    /\ nmeaField(tx[4], 1) = <<"2">> /\ nmeaField(tx[4], 2) = <<"1">>
    /\ nmeaField(tx[5], 1) = <<"2">> /\ nmeaField(tx[5], 2) = <<"2">>

\* C27: an update() call that finds the device running with a whole output
\* interval elapsed advances the clock by one second and writes one cycle
\* GGA, RMC, GSA, GSV 1 of 2, GSV 2 of 2, VTG, whose time fields (GGA, RMC)
\* show the advanced clock; every other step writes nothing
C27_CycleOnTick ==
    [][IF gps'.op = "update" /\ outputDue(gps.dev, now)
       THEN /\ clockSecs(gps'.dev.state) = clockSecs(gps.dev.state) + 1
            /\ cycleInOrder(gps'.tx)
            /\ nmeaField(gps'.tx[1], 1) = clockText(gps'.dev.state)
            /\ nmeaField(gps'.tx[2], 1) = clockText(gps'.dev.state)
       ELSE gps'.tx = <<>>]_vars

\* The second cycle after begin() has been written, at 12:00:02
C27_Witness ==
    /\ gps.op = "update"
    /\ Len(gps.tx) = 6
    /\ gps.dev.state.second = 2
    /\ nmeaField(gps.tx[2], 1) = <<"1","2","0","0","0","2",".","0","0">>

\* C28: no step of a GPS device, stop and start included, moves the
\* simulated date-time backward or by anything but one second
C28_ClockMonotone ==
    [][\/ clockSecs(gps'.dev.state) = clockSecs(gps.dev.state)
       \/ clockSecs(gps'.dev.state) = clockSecs(gps.dev.state) + 1]_vars

\* second < 60, minute < 60, hour < 24, day in 1..28, month in 1..12
clockValid(st) ==
    /\ st.second \in 0..59
    /\ st.minute \in 0..59
    /\ st.hour \in 0..23
    /\ st.day \in 1..28
    /\ st.month \in 1..12

\* C29: every clock value is in range, and each output step moves the clock
\* to the one value in range that is one second later in the calendar of
\* 28-day months (so a 59 rolls to 0 and carries, a day 28 rolls to 1 in every
\* month, a month 12 rolls to 1 and carries into the year); no other step
\* changes the clock
C29_AdvanceTime ==
    /\ [](clockValid(gps.dev.state))
    /\ [][IF gps'.op = "update" /\ outputDue(gps.dev, now)
          THEN clockSecs(gps'.dev.state) = clockSecs(gps.dev.state) + 1
          ELSE clockSecs(gps'.dev.state) = clockSecs(gps.dev.state)]_vars

\* The full cascade has happened: 23:59:59 on day 28 of month 12 of 2025 was
\* advanced to 00:00:00 on 1 January 2026
C29_Witness ==
    /\ gps.op = "update"
    /\ Len(gps.tx) = 6
    /\ gps.dev.state.year = 2026
    /\ <<gps.dev.state.month, gps.dev.state.day, gps.dev.state.hour,
         gps.dev.state.minute, gps.dev.state.second>> = <<1, 1, 0, 0, 0>>

\* s is '$', a body without '*', '*', the two upper-case hex digits of the
\* XOR of the body, CR, LF
checksumFramed(s) ==
    /\ Len(s) >= 6
    /\ s[1] = "$"
    /\ SubSeq(s, Len(s) - 1, Len(s)) = <<"\r", "\n">>
    /\ s[Len(s) - 4] = "*"
    /\ \A i \in 2..(Len(s) - 5) : s[i] # "*"
    /\ <<s[Len(s) - 3], s[Len(s) - 2]>>
         = <<HexChars[(xorRange(s, 2, Len(s) - 5) \div 16) + 1],
             HexChars[(xorRange(s, 2, Len(s) - 5) % 16) + 1]>>

\* C30: every sentence written to the port ends with '*', the two hex digits
\* of the XOR of the characters between '$' and '*', and CR LF
C30_ChecksumFramed ==
    \A i \in 1..Len(gps.tx) : checksumFramed(gps.tx[i])

\* The GSV sentences of a cycle, in the order written
gsvOf(tx) == SelectSeq(tx, LAMBDA x : nmeaField(x, 0) = S_GPGSV)

\* The number of comma-separated fields of s
fieldCount(s) == Cardinality({i \in 1..Len(s) : s[i] = ","}) + 1

\* Sentence k of the GSV sentences g of state st: total count, sequence
\* number k, satellites in view, then the entries of satellites
\* 4(k-1)+1 .. min(4k, N) of the table, four fields each, and nothing else
gsvChunk(st, g, k) ==
    LET n == IF 4 * k <= st.numSatsInView THEN 4 ELSE st.numSatsInView - 4 * (k - 1)
    IN /\ n \in 0..4
       /\ fieldCount(g[k]) = 4 + 4 * n
       /\ nmeaField(g[k], 1) = decStr(Len(g))
       /\ nmeaField(g[k], 2) = decStr(k)
       /\ nmeaField(g[k], 3) = zeroPad(decStr(st.numSatsInView), 2)
       /\ \A j \in 1..n :
             /\ nmeaField(g[k], 4 * j) = zeroPad(decStr(st.sats[4 * (k - 1) + j][1]), 2)
             /\ nmeaField(g[k], 4 * j + 1) = zeroPad(decStr(st.sats[4 * (k - 1) + j][2]), 2)
             /\ nmeaField(g[k], 4 * j + 2) = zeroPad(decStr(st.sats[4 * (k - 1) + j][3]), 3)

C32_ClockFollowsWallTime ==
    (gps.ops = 0 /\ gps.op = "update") =>
        clockSecs(gps.dev.state) - clockSecs(NMEAGPSState_reset)
            = now \div getUpdateIntervalMs(gps.dev)

-----------------------------------------------------------------------------
(* The main loop *)

\* C33: every call of console->update() returns, so that loop() goes on to
\* deviceManager.updateAll(), whatever arrives or fails to arrive on the console
C33_LoopIterates == (con.pc = "console") ~> (con.pc = "devices")

-----------------------------------------------------------------------------
(* Device identities *)

\* the slots that hold a device
liveSlots == {i \in 0..(MAX_DEVICES - 1) : devices[i] # NoDevice}

\* a step in which createDevice returned an id
isCreateStep == lastOp'.op = "createDevice" /\ lastOp'.ok

\* C34: every live device's id is its slot index (so no two live devices share
\* one), and a createDevice that succeeds returns the lowest index that was
\* free, puts the device there and nowhere else: an id freed by destroyDevice
\* is given out again as soon as it is the lowest free one
C34_LowestFreeSlot ==
    /\ [](\A i \in liveSlots : devices[i].deviceId = i)
    /\ [][isCreateStep =>
            /\ lastOp'.id \in 0..(MAX_DEVICES - 1)
            /\ devices[lastOp'.id] = NoDevice
            /\ \A j \in 0..(lastOp'.id - 1) : devices[j] # NoDevice
            /\ devices'[lastOp'.id] # NoDevice
            /\ devices'[lastOp'.id].deviceId = lastOp'.id
            /\ \A j \in 0..(MAX_DEVICES - 1) : j # lastOp'.id => devices'[j] = devices[j]]_vars

\* createDevice has given out id 0 while device 1 is alive: device 1 was
\* created when 0 was taken, so 0 was freed by destroyDevice and reused
C34_Witness ==
    /\ lastOp.op = "createDevice" /\ lastOp.ok /\ lastOp.id = 0
    /\ devices[1] # NoDevice

\* C35: the UART table and the instance array correspond one to one: UART u
\* is marked as owned by id exactly when slot id holds a device whose UART
\* index is u; a live device has one UART of the platform and a factory
\* binding (the factory of its class), an empty slot has no binding, and there
\* are never more live devices than MAX_DEVICES or than UARTs
C35_TablesCorrespond ==
    /\ \A u \in 1..PLATFORM_MAX_UARTS :
          /\ uartAllocation[u] \in 0..(MAX_DEVICES - 1) \cup {INVALID_ID}
          /\ \A id \in 0..(MAX_DEVICES - 1) :
                uartAllocation[u] = id <=> (devices[id] # NoDevice /\ devices[id].uartIndex = u)
    /\ \A i \in liveSlots :
          /\ devices[i].uartIndex \in 1..PLATFORM_MAX_UARTS
          /\ deviceFactories[i] # NULL
          /\ FactoryClass(deviceFactories[i]) = devices[i].kind
    /\ \A i \in (0..(MAX_DEVICES - 1)) \ liveSlots : deviceFactories[i] = NULL
    /\ Cardinality(liveSlots) <= MAX_DEVICES
    /\ Cardinality(liveSlots) <= PLATFORM_MAX_UARTS

\* Slot 0 has been emptied by destroyDevice while device 1 lives on its UART
C35_Witness ==
    /\ lastOp.op = "destroyDevice" /\ lastOp.ok /\ lastOp.id = 0
    /\ devices[1] # NoDevice
    /\ uartAllocation[devices[1].uartIndex] = 1

-----------------------------------------------------------------------------
(* Serial ports *)

\* UART u is owned by a device that is running
ownedByRunning(u) ==
    /\ uartAllocation[u] # INVALID_ID
    /\ devices[uartAllocation[u]] # NoDevice
    /\ devices[uartAllocation[u]].running

\* C36: a UART's serial port is open exactly when the UART is owned by a
\* running device; the port of a free UART or of a device that was never
\* started or has been stopped is closed, also after destroyDevice of a
\* running device and after option changes on a stopped device
C36_OpenIffRunning ==
    \A u \in 1..PLATFORM_MAX_UARTS : serialPorts[u].isOpen <=> ownedByRunning(u)

\* setOption has just changed the baud rate of a stopped device whose UART
\* had been opened and closed before
C36_Witness ==
    /\ lastOp.op = "setOption" /\ lastOp.ok /\ ~lastOp.was
    /\ devices[lastOp.id].options[1] # initOptions(devices[lastOp.id].kind)[1]
    /\ serialPorts[devices[lastOp.id].uartIndex].created
    /\ ~serialPorts[devices[lastOp.id].uartIndex].isOpen

-----------------------------------------------------------------------------
(* Option values *)

\* the value v is one the descriptor desc allows
optionInRange(desc, v) ==
    CASE desc.type = "ENUM"   -> v \in 0..(Len(desc.values) - 1)
      [] desc.type = "UINT32" -> v \in desc.min..desc.max
      [] desc.type = "BOOL"   -> v \in BOOLEAN

\* every option of device d has an allowed value
optionsInRange(d) ==
    /\ Len(d.options) = Len(OptionDescs(d.kind))
    /\ \A i \in 1..Len(d.options) : optionInRange(OptionDescs(d.kind)[i], d.options[i])

\* C37: after any sequence of setOption and deserializeOptions calls every
\* enum option selects one of its candidates and every numeric option is
\* within [min, max] (rotator speeds 1..10), so the baud and rate tables are
\* read in bounds; a setOption that returns false leaves the options unchanged
C37_OptionsInRange ==
    /\ [](\A i \in liveSlots : optionsInRange(devices[i]))
    /\ [][(lastOp'.op = "setOption" /\ ~lastOp'.ok) =>
             devices'[0].options = devices[0].options]_vars

\* A rotator whose speeds are both off their defaults has just been given an
\* option block with a speed byte out of 1..10
C37_Witness ==
    /\ lastOp.op = "deserializeOptions" /\ lastOp.ok
    /\ devices[0].kind = "G5500Device"
    /\ devices[0].options[2] = DEFAULT_AZ_SPEED_INT
    /\ devices[0].options[3] = MAX_SPEED

-----------------------------------------------------------------------------
(* Parser buffers *)

\* C38: the buffered length of the CAT parser and of the GS-232 parser never
\* exceeds CAT_BUFFER_SIZE - 1, so that the terminating NUL fits, and it is 0
\* once a terminator byte (';' for CAT, CR or LF for GS-232) has been consumed
C38_BufferBounded ==
    /\ Len(cat.buffer) <= CAT_BUFFER_SIZE - 1
    /\ Len(rot.buffer) <= CAT_BUFFER_SIZE - 1
    /\ rot.dev.bufLen = Len(rot.buffer)
    /\ (lastOp.op = "catByte" /\ lastOp.arg = 59) => Len(cat.buffer) = 0
    /\ (lastOp.op = "rotByte" /\ lastOp.arg \in {13, 10}) => Len(rot.buffer) = 0

\* The CAT parser has consumed a terminator while the GS-232 parser's buffer
\* is full
C38_Witness ==
    /\ lastOp.op = "catByte" /\ lastOp.arg = 59
    /\ Len(rot.buffer) = CAT_BUFFER_SIZE - 1

-----------------------------------------------------------------------------
(* Commands and integration within one update() of the rotator *)

\* The rotator state once the commands in bytes have been processed
afterCommands(bytes) ==
    GS232Parser_update([state |-> rot.dev.state, buffer |-> rot.buffer, tx |-> <<>>],
                       bytes).state

\* this step is update() of the running rotator with bytes waiting on the port
isUpdateWith(bytes) ==
    /\ Len(bytes) > 0
    /\ rot.dev.running
    /\ rot'.ops = rot.ops + 1
    /\ rot' = G5500Device_update(rot, bytes, now)

\* what one update() with commands does to the position: p is the state
\* after the commands, delta the time since the previous integration
creditedWholeInterval(p, delta) ==
    /\ p.lastUpdateMs = rot.dev.state.lastUpdateMs
    /\ p.azimuth = rot.dev.state.azimuth
    /\ p.elevation = rot.dev.state.elevation
    /\ rot'.dev.state = simulateRotation([rot.dev EXCEPT !.state = p], now).state
    /\ p.azRotation = "STOPPED" => rot'.dev.state.azimuth = rot.dev.state.azimuth
    /\ p.elRotation = "STOPPED" => rot'.dev.state.elevation = rot.dev.state.elevation
    /\ (delta >= MIN_UPDATE_INTERVAL /\ p.azRotation = "CW" /\ ~p.azGotoMode) =>
          rot'.dev.state.azimuth =
              constrain(rot.dev.state.azimuth + azSpeedOf(rot) * delta, AZ_MIN, AZ_MAX)
    /\ (delta >= MIN_UPDATE_INTERVAL /\ p.azRotation = "CW" /\ p.azGotoMode) =>
          rot'.dev.state.azimuth =
              constrain(rot.dev.state.azimuth + azSpeedOf(rot) * delta,
                        AZ_MIN, p.targetAzimuth)

\* C39: within one update() of the rotator all buffered commands are
\* processed first and the integration then covers the whole time since the
\* previous integration with the directions those commands left: a rotate or
\* goto command is credited motion for time that passed before it was read,
\* and a stop command cancels the motion of the whole interval
C39_CommandsBeforeIntegration ==
    [][\A bytes \in RotChunks :
          isUpdateWith(bytes) =>
              creditedWholeInterval(afterCommands(bytes), now - rot.dev.state.lastUpdateMs)
      ]_vars

\* An update() that read a rotate or goto command has moved an axis that was
\* standing still throughout the time it integrated
C39_Witness ==
    /\ rot.fresh
    /\ rot.baseAt = now
    /\ rot.base.azRotation = "CW"
    /\ rot.base.azimuth = 0
    /\ rot.base.lastUpdateMs < now
    /\ rot.dev.state.azimuth > 0

-----------------------------------------------------------------------------
(* Console commands and the typed id *)

\* this step is a destroy, start or stop command
isIdCommand == lastOp'.op \in {"destroy", "start", "stop"}

\* C40: destroy, start and stop act only on the device whose id is the
\* number typed; a typed id outside 0..MAX_DEVICES-1 (negative, or 256 and
\* above) destroys, starts and stops nothing and leaves the manager unchanged
C40_TypedIdOnly ==
    [][isIdCommand =>
          /\ \A i \in 0..(MAX_DEVICES - 1) : i # lastOp'.arg => devices'[i] = devices[i]
          /\ lastOp'.arg \notin 0..(MAX_DEVICES - 1) =>
                UNCHANGED <<factories, devices, deviceFactories, uartAllocation,
                            serialPorts, stored>>
      ]_vars

====
